---- MODULE Spec2Model ----
(***************************************************************************)
(* Survivorship-free momentum backtest (dshan12/Momentum-Research).        *)
(*                                                                         *)
(* The module models, from the Python sources,                             *)
(*   - build_membership_timeline's backward/forward replay                 *)
(*     (src/src/data/build_sp500_history.py),                              *)
(*   - prices_masked_by_membership (src/src/data/panel_from_membership.py),*)
(*   - the return / rank / signal / gate steps of main()                   *)
(*     (src/src/analysis_survivorship_free.py),                            *)
(*   - the weight, drift and turnover functions (src/src/data/turnover.py).*)
(*                                                                         *)
(* Floats are modelled as exact rationals <<n, d>> with d > 0 in lowest    *)
(* terms; NaN (a missing cell) is the pair <<0, 0>>.  Tickers and dates    *)
(* are positive integers; a panel is a function [date -> [ticker -> cell]].*)
(***************************************************************************)
EXTENDS Integers, Sequences, FiniteSets, TLC

VARIABLES
    pc,               \* position of the running computation
    \* ---- build_membership_timeline
    current_set,      \* set(current["Symbol"])                      (line 226)
    changes,          \* rows of _extract_changes_table()            (line 227)
    row_i,            \* number of rows the loop of line 229 has done
    parsed_events,    \* the list events with its ticker lists  (lines 228-238)
    events,           \* filtered, date-sorted list of ChangeEvent   (line 238)
    start,            \* argument start
    end,              \* argument end
    today,            \* pd.Timestamp(dt.date.today())              (line 240)
    backward,         \* events still to undo                        (line 241)
    memb,             \* the set being rolled back                   (line 243)
    cur_day,          \* the day d the forward loop is at            (line 260)
    current_members,  \* the set being rolled forward                (line 258)
    daily_rows,       \* rows (date, ticker, 1) emitted so far       (line 257)
    \* ---- prices_masked_by_membership
    prices,           \* price panel
    membership,       \* long membership table: rows (date, ticker, in_index)
    \* ---- monthly_panel_from_daily
    daily,            \* argument daily: rows (date, ticker, in_index)
    monthly,          \* the frame returned                          (line 283)
    \* ---- robust_download of data/download_prices_by_union.py
    all_tickers,      \* argument all_tickers
    grp_i,            \* position of the for loop over batch(...)    (line 64)
    tries,            \* line 65
    last_err,         \* line 66
    frames,           \* line 63
    calls,            \* calls of download_batch made so far, with their outcome
    warned,           \* batches the warning of line 77 was printed for
    \* ---- main() of analysis_survivorship_free.py
    masked_prices,    \* line 92
    rets,             \* line 93
    ranks,            \* line 95
    sig_longs,        \* longs as returned by build_signals          (line 96)
    sig_shorts,       \* shorts as returned by build_signals         (line 96)
    valid,            \* line 99
    longs,            \* longs after .where(valid, 0)                (line 100)
    shorts,           \* shorts after .where(valid, 0)               (line 101)
    W,                \* line 103
    gross,            \* line 104
    to,               \* turnover list built by turnover_from_weights (line 35)
    net               \* line 109

tl_vars  == <<current_set, changes, row_i, parsed_events, events, start, end,
              today, backward, memb, cur_day, current_members, daily_rows>>
mk_vars  == <<prices, membership>>
mo_vars  == <<daily, monthly>>
dl_vars  == <<all_tickers, grp_i, tries, last_err, frames, calls, warned>>
bt_vars  == <<masked_prices, rets, ranks, sig_longs, sig_shorts, valid,
              longs, shorts, W, gross, to, net>>
vars     == <<pc, tl_vars, mk_vars, mo_vars, dl_vars, bt_vars>>

\* A variable of a computation that is not running.
Unset == <<>>
NoMonthly == daily = Unset /\ monthly = Unset
NoDownload ==
    /\ all_tickers = Unset /\ grp_i = Unset /\ tries = Unset
    /\ last_err = Unset /\ frames = Unset /\ calls = Unset /\ warned = Unset

(***************************************************************************)
(* Exact rational arithmetic standing in for float64.                      *)
(***************************************************************************)
NaN == <<0, 0>>

Abs(x) == IF x < 0 THEN -x ELSE x

RECURSIVE GCD(_, _)
GCD(a, b) == IF b = 0 THEN a ELSE GCD(b, a % b)

\* The rational n/d in lowest terms with a positive denominator.
Rat(n, d) ==
    IF d = 0 THEN NaN
    ELSE LET g == GCD(Abs(n), Abs(d))
             s == IF d < 0 THEN -1 ELSE 1
         IN  <<(s * n) \div g, (s * d) \div g>>

RInt(n) == <<n, 1>>
Zero == <<0, 1>>
One  == <<1, 1>>

isna(x)  == x[2] = 0
notna(x) == x[2] # 0

\* Arithmetic with NaN propagation, as numpy's.
RAdd(x, y) == IF isna(x) \/ isna(y) THEN NaN
              ELSE Rat(x[1] * y[2] + y[1] * x[2], x[2] * y[2])
RNeg(x)    == IF isna(x) THEN NaN ELSE <<-x[1], x[2]>>
RSub(x, y) == RAdd(x, RNeg(y))
RMul(x, y) == IF isna(x) \/ isna(y) THEN NaN
              ELSE Rat(x[1] * y[1], x[2] * y[2])
\* x / y; a zero divisor is only ever passed as NaN (.replace(0, np.nan)).
RDiv(x, y) == IF isna(x) \/ isna(y) \/ y[1] = 0 THEN NaN
              ELSE Rat(x[1] * y[2], x[2] * y[1])
RAbs(x)    == IF isna(x) THEN NaN ELSE <<Abs(x[1]), x[2]>>

\* Comparisons; every comparison with NaN is False, as in IEEE 754.
RLt(x, y) == notna(x) /\ notna(y) /\ x[1] * y[2] < y[1] * x[2]
RLe(x, y) == notna(x) /\ notna(y) /\ x[1] * y[2] <= y[1] * x[2]
RGt(x, y) == RLt(y, x)
RGe(x, y) == RLe(y, x)

fillna(x, v) == IF isna(x) THEN v ELSE x

\* The sum of s over the keys of S between a and b, halving the range.
RECURSIVE SumBetween(_, _, _, _)
SumBetween(s, S, a, b) ==
    IF a = b THEN (IF a \in S THEN fillna(s[a], Zero) ELSE Zero)
    ELSE LET m == (a + b) \div 2
         IN  RAdd(SumBetween(s, S, a, m), SumBetween(s, S, m + 1, b))

\* Series.sum() over the index set S of series s: NaN cells are skipped.
SumSkipNa(s, S) ==
    IF S = {} THEN Zero
    ELSE SumBetween(s, S, CHOOSE x \in S : \A y \in S : x <= y,
                          CHOOSE x \in S : \A y \in S : y <= x)

\* The elements of a set of integers in ascending order.
RECURSIVE SortedSeq(_)
SortedSeq(S) ==
    IF S = {} THEN <<>>
    ELSE LET m == CHOOSE x \in S : \A y \in S : x <= y
         IN  <<m>> \o SortedSeq(S \ {m})

\* The index (dates) and the columns (tickers) of a panel.
Index(P)   == DOMAIN P
Columns(P) == UNION {DOMAIN P[dt] : dt \in DOMAIN P}

RECURSIVE Reverse(_)
Reverse(s) == IF s = <<>> THEN <<>> ELSE Reverse(Tail(s)) \o <<Head(s)>>

(***************************************************************************)
(* build_membership_timeline: the replay (lines 240-272).                  *)
(* A ChangeEvent is [date, added, removed]; added and removed are the sets *)
(* of the tickers in the event's lists (the loops over the lists only test,*)
(* add and remove members, so order and repetition in a list do not        *)
(* matter).                                                                *)
(***************************************************************************)
MaxDay    == 3      \* days are 1..MaxDay; today is MaxDay
MaxEvents == 2      \* length of the change history
TimelineTickers == {1, 2}

TimelineDays == 1..MaxDay

\* One bucket of a change row: at most one ticker per bucket in the histories
\* enumerated here (a bucket may name the other bucket's ticker).
Buckets == {{}} \cup {{t} : t \in TimelineTickers}

\* Events kept by lines 233-237: a date, and not both buckets empty.
ChangeEvents ==
    {e \in [date : TimelineDays, added : Buckets, removed : Buckets] :
        e.added # {} \/ e.removed # {}}

\* events.sort(key=lambda e: e.date)                              (line 238)
IsDateSorted(evs) ==
    \A i \in 1..Len(evs), j \in 1..Len(evs) : i < j => evs[i].date <= evs[j].date

Histories ==
    {evs \in UNION {[1..n -> ChangeEvents] : n \in 0..MaxEvents} : IsDateSorted(evs)}

\* backward = [e for e in events if e.date > start]; backward.reverse()
\*                                                            (lines 241-242)
BackwardOf(evs, s) ==
    LET after(e) == e.date > s
    IN  Reverse(SelectSeq(evs, after))

\* One pass of the loop body of lines 244-250: undo event e.
UndoEvent(m, e) == (m \ e.added) \cup e.removed

\* A by_date that hands day d the events dated d + 1.
ByDate_next_day(evs, s, e, day) ==
    LET on(ev) == s <= ev.date /\ ev.date <= e /\ ev.date = day + 1
    IN  SelectSeq(evs, on)

\* by_date[d] for a day d: the events with start <= date <= end dated d, in
\* list order                                                 (lines 252-255)
ByDate(evs, s, e, day) ==
    LET on(ev) == s <= ev.date /\ ev.date <= e /\ ev.date = day
    IN  SelectSeq(evs, on)

\* A replay that applies an event's additions before its removals.
ApplyEventAddFirst(m, ev) == (m \cup ev.added) \ ev.removed

\* m.remove(r) of Python's built-in set: KeyError when r is not in m.
set_remove(m, r) ==
    [raised |-> IF r \in m THEN "" ELSE "KeyError", value |-> m \ {r}]

\* A removal loop that calls remove without testing membership first.
RECURSIVE remove_each_unguarded(_, _)
remove_each_unguarded(m, rs) ==
    IF rs = {} THEN [raised |-> "", value |-> m]
    ELSE LET r    == CHOOSE x \in rs : \A y \in rs : x <= y
             step == set_remove(m, r)
         IN  IF step.raised # "" THEN step
             ELSE remove_each_unguarded(step.value, rs \ {r})

\* for r in ev.removed: if r in current_members: current_members.remove(r)
\*                                                        (lines 263-265)
RECURSIVE remove_each(_, _)
remove_each(m, rs) ==
    IF rs = {} THEN [raised |-> "", value |-> m]
    ELSE LET r    == CHOOSE x \in rs : \A y \in rs : x <= y
             step == IF r \in m THEN set_remove(m, r)
                     ELSE [raised |-> "", value |-> m]
         IN  IF step.raised # "" THEN step
             ELSE remove_each(step.value, rs \ {r})

\* One event of the forward loop: removals, then additions   (lines 263-268)
ApplyEvent(m, ev) == remove_each(m, ev.removed).value \cup ev.added

\* A replay that applies the events of a day from the last to the first.
RECURSIVE ApplyEventsLastFirst(_, _)
ApplyEventsLastFirst(m, evs) ==
    IF evs = <<>> THEN m
    ELSE ApplyEventsLastFirst(ApplyEvent(m, evs[Len(evs)]), SubSeq(evs, 1, Len(evs) - 1))

RECURSIVE ApplyEvents(_, _)
ApplyEvents(m, evs) ==
    IF evs = <<>> THEN m ELSE ApplyEvents(ApplyEvent(m, Head(evs)), Tail(evs))

\* The exception the loop over a day's events stops with, "" for none.
RECURSIVE replay_raises(_, _)
replay_raises(m, evs) ==
    IF evs = <<>> THEN ""
    ELSE LET raised == remove_each(m, Head(evs).removed).raised
         IN  IF raised # "" THEN raised
             ELSE replay_raises(ApplyEvent(m, Head(evs)), Tail(evs))

\* The rows appended for one day (lines 269-270), in ticker order.
RowsOf(day, m) ==
    LET ts == SortedSeq(m)
    IN  [i \in 1..Len(ts) |-> <<day, ts[i], 1>>]

TimelineInit ==
    /\ pc = "rollback"
    /\ current_set \in SUBSET TimelineTickers
    /\ events \in Histories
    /\ changes = Unset /\ row_i = Unset /\ parsed_events = Unset
    /\ start \in TimelineDays
    /\ end \in {MaxDay - 1, MaxDay}
    /\ today = MaxDay
    /\ backward = BackwardOf(events, start)
    /\ memb = current_set
    /\ cur_day = start
    /\ current_members = {}
    /\ daily_rows = <<>>
    /\ prices = Unset /\ membership = Unset /\ NoMonthly /\ NoDownload
    /\ masked_prices = Unset /\ rets = Unset /\ ranks = Unset
    /\ sig_longs = Unset /\ sig_shorts = Unset /\ valid = Unset
    /\ longs = Unset /\ shorts = Unset /\ W = Unset /\ gross = Unset
    /\ to = Unset /\ net = Unset

\* for e in backward: ... (lines 244-250), one event per step.
RollBack ==
    /\ pc = "rollback"
    /\ backward # <<>>
    /\ memb' = UndoEvent(memb, Head(backward))
    /\ backward' = Tail(backward)
    /\ UNCHANGED <<pc, current_set, changes, row_i, parsed_events, events, start,
                   end, today, cur_day, current_members, daily_rows, mk_vars, mo_vars, dl_vars,
                   bt_vars>>

\* Lines 252-258: the rollback is over; current_members = set(memb).
StartForward ==
    /\ pc = "rollback"
    /\ backward = <<>>
    /\ current_members' = memb
    /\ cur_day' = start
    /\ pc' = IF start <= end THEN "forward" ELSE "done"
    /\ UNCHANGED <<current_set, changes, row_i, parsed_events, events, start, end,
                   today, backward, memb, daily_rows, mk_vars, mo_vars, dl_vars, bt_vars>>

\* One day of the loop of lines 260-270.
ForwardDay ==
    /\ pc = "forward"
    /\ LET today_evs == ByDate(events, start, end, cur_day)
           raised    == replay_raises(current_members, today_evs)
           m         == ApplyEvents(current_members, today_evs)
       IN  IF raised # ""
           THEN /\ pc' = raised
                /\ UNCHANGED <<cur_day, current_members, daily_rows>>
           ELSE /\ current_members' = m
                /\ daily_rows' = daily_rows \o RowsOf(cur_day, m)
                /\ IF cur_day < end THEN cur_day' = cur_day + 1 /\ pc' = "forward"
                                    ELSE cur_day' = cur_day /\ pc' = "done"
    /\ UNCHANGED <<current_set, changes, row_i, parsed_events, events, start, end,
                   today, backward, memb, mk_vars, mo_vars, dl_vars, bt_vars>>

TimelineNext == RollBack \/ StartForward \/ ForwardDay

SpecTimeline == TimelineInit /\ [][TimelineNext]_vars

(***************************************************************************)
(* compute_monthly_returns_from_masked_prices                              *)
(* (analysis_survivorship_free.py, lines 17-33).                           *)
(***************************************************************************)
\* The row at date t of panel P, or an all-NaN row when P has no date t.
RowAt(P, t, cols) == [k \in cols |-> IF t \in Index(P) THEN P[t][k] ELSE NaN]

\* DataFrame.shift(n): every row moves n dates later.
shift(P, n) == [t \in Index(P) |-> RowAt(P, t - n, DOMAIN P[t])]

\* The same with the gaps of P filled from the last valid price first.
pct_change_pad(P) ==
    LET last(t, k) ==
            LET seen == {u \in Index(P) : u <= t /\ notna(P[u][k])}
            IN  IF seen = {} THEN NaN
                ELSE P[CHOOSE u \in seen : \A v \in seen : v <= u][k]
    IN  [t \in Index(P) |->
            [k \in DOMAIN P[t] |->
                IF t - 1 \in Index(P)
                THEN RSub(RDiv(last(t, k), last(t - 1, k)), One) ELSE NaN]]

\* masked_prices.pct_change(fill_method=None): p[t] / p[t-1] - 1, NaN when
\* either price is NaN and on the first date.  (A zero p[t-1] gives inf or
\* NaN in pandas; line 22 nulls both, and here the quotient is NaN.)
pct_change(P) ==
    LET prev == shift(P, 1)
    IN  [t \in Index(P) |->
            [k \in DOMAIN P[t] |-> RSub(RDiv(P[t][k], prev[t][k]), One)]]

\* return_outlier_threshold: |log1p(r)| > 1.5                    (line 22)
\* exp(1.5) = 4.48168907..., bracketed here by 44816/10000 and 44817/10000;
\* the test is exact for every 1 + r outside that bracket.
ExpThresholdNum == 44817
ExpThresholdDen == 10000

\* bad = np.log1p(rets).abs() > 1.5                          (lines 21-22)
\* log1p(-1) = -inf is bad; log1p of r < -1 is NaN, which compares False.
log_bad(r) ==
    /\ notna(r)
    /\ LET x == RAdd(r, One)
       IN  \/ x = Zero
           \/ RGt(x, <<ExpThresholdNum, ExpThresholdDen>>)
           \/ RGt(x, Zero) /\ RLt(x, <<ExpThresholdDen, ExpThresholdNum>>)

\* min_winsorize_n and the winsorize bounds               (lines 26 and 28)
MinWinsorizeN == 50
WinsorizePct  == 1

\* The j-th smallest (j = 1..n) non-NaN value of a row.
OrderStat(row, j) ==
    LET keys == {k \in DOMAIN row : notna(row[k])}
        below(k)   == Cardinality({i \in keys : RLt(row[i], row[k])})
        notabove(k) == Cardinality({i \in keys : RLe(row[i], row[k])})
    IN  row[CHOOSE k \in keys : below(k) < j /\ j <= notabove(k)]

\* A quantile that takes the order statistic just below position
\* q * (n - 1) without interpolating.
quantile_lower(row, qn) ==
    LET n  == Cardinality({k \in DOMAIN row : notna(row[k])})
        lo == (qn * (n - 1)) \div 100
    IN  OrderStat(row, lo + 1)

\* row.quantile(q), q = qn/100: linear interpolation between the order
\* statistics around position q * (n - 1).
quantile(row, qn) ==
    LET n   == Cardinality({k \in DOMAIN row : notna(row[k])})
        lo  == (qn * (n - 1)) \div 100
        g   == Rat(qn * (n - 1) - 100 * lo, 100)
        xlo == OrderStat(row, lo + 1)
    IN  IF g = Zero THEN xlo
        ELSE RAdd(xlo, RMul(g, RSub(OrderStat(row, lo + 2), xlo)))

\* row.clip(lower=lo, upper=hi): NaN stays NaN.
clip(x, lo, hi) ==
    IF isna(x) THEN NaN
    ELSE IF RLt(x, lo) THEN lo ELSE IF RGt(x, hi) THEN hi ELSE x

\* A winsorization applied to every row that has a value, thin or not.
winsorize_row_nonempty(row) ==
    IF Cardinality({k \in DOMAIN row : notna(row[k])}) = 0 THEN row
    ELSE LET lo == quantile(row, WinsorizePct)
             hi == quantile(row, 100 - WinsorizePct)
         IN  [k \in DOMAIN row |-> clip(row[k], lo, hi)]

\* _winsorize_row                                            (lines 25-29)
winsorize_row(row) ==
    IF Cardinality({k \in DOMAIN row : notna(row[k])}) < MinWinsorizeN THEN row
    ELSE LET lo == quantile(row, WinsorizePct)
             hi == quantile(row, 100 - WinsorizePct)
         IN  [k \in DOMAIN row |-> clip(row[k], lo, hi)]

\* Returns winsorized first and cleared of outliers afterwards.
returns_winsorized_first(P) ==
    LET r0 == pct_change(P)
        r1 == [t \in Index(P) |-> winsorize_row(r0[t])]
    IN  [t \in Index(P) |->
            [k \in DOMAIN P[t] |-> IF log_bad(r0[t][k]) THEN NaN ELSE r1[t][k]]]

compute_monthly_returns_from_masked_prices(P) ==
    LET r0 == pct_change(P)
        r1 == [t \in Index(P) |->
                 [k \in DOMAIN P[t] |-> IF log_bad(r0[t][k]) THEN NaN ELSE r0[t][k]]]
    IN  [t \in Index(P) |-> winsorize_row(r1[t])]

\* rets = compute_monthly_returns_from_masked_prices(masked_prices) (line 93)
Returns ==
    /\ pc = "returns"
    /\ rets' = compute_monthly_returns_from_masked_prices(masked_prices)
    /\ pc' = "ranks"
    /\ UNCHANGED <<tl_vars, mk_vars, mo_vars, dl_vars, masked_prices, ranks, sig_longs, sig_shorts,
                   valid, longs, shorts, W, gross, to, net>>

\* The other variables of a run that starts at the masked panel.
NoTimeline ==
    /\ current_set = Unset /\ events = Unset /\ start = Unset /\ end = Unset
    /\ changes = Unset /\ row_i = Unset /\ parsed_events = Unset
    /\ today = Unset /\ backward = Unset /\ memb = Unset /\ cur_day = Unset
    /\ current_members = Unset /\ daily_rows = Unset

(***************************************************************************)
(* The return computation on every small masked panel.                      *)
(***************************************************************************)
NReturnDates == 3
ReturnCols   == {1, 2}
\* Masked prices: NaN, or a positive price; 10/2 and 10/1 exceed exp(1.5).
MaskedCells  == {NaN, RInt(1), RInt(2), RInt(10)}

ReturnsInit ==
    /\ pc = "returns"
    /\ masked_prices \in [1..NReturnDates -> [ReturnCols -> MaskedCells]]
    /\ NoTimeline
    /\ prices = Unset /\ membership = Unset /\ NoMonthly /\ NoDownload
    /\ rets = Unset /\ ranks = Unset
    /\ sig_longs = Unset /\ sig_shorts = Unset /\ valid = Unset
    /\ longs = Unset /\ shorts = Unset /\ W = Unset /\ gross = Unset
    /\ to = Unset /\ net = Unset

ReturnsNext == Returns

SpecReturns == ReturnsInit /\ [][ReturnsNext]_vars

(***************************************************************************)
(* compute_momentum_ranks, build_signals and the minimum-names gate        *)
(* (analysis_survivorship_free.py, lines 36-48 and 98-101).                *)
(***************************************************************************)
\* mom = (L.shift(skip) - L.shift(lookback + skip)).replace(+-inf, NaN) with
\* L = np.log(masked_prices)                                  (lines 39-40)
\* The score is kept as exp(mom), the price ratio: log is increasing, so the
\* ratios order and tie exactly as the log differences do.  A price <= 0 has
\* log -inf or NaN and leaves the score NaN.
momentum(P, lookback, skip) ==
    LET a == shift(P, skip)
        b == shift(P, lookback + skip)
    IN  [t \in Index(P) |->
            [k \in DOMAIN P[t] |->
                IF RGt(a[t][k], Zero) /\ RGt(b[t][k], Zero)
                THEN RDiv(a[t][k], b[t][k]) ELSE NaN]]

\* A ranking that gives a missing score the highest rank instead of NaN.
rank_pct_na_bottom(row) ==
    LET keys == {k \in DOMAIN row : notna(row[k])}
        n    == Cardinality(DOMAIN row)
    IN  [k \in DOMAIN row |->
            IF isna(row[k]) THEN Rat(2 * Cardinality(keys) + (n - Cardinality(keys)) + 1, 2 * n)
            ELSE Rat(2 * Cardinality({i \in keys : RLt(row[i], row[k])})
                       + Cardinality({i \in keys : row[i] = row[k]}) + 1, 2 * n)]

\* A ranking that gives tied scores the lowest rank of their group.
rank_pct_min_ties(row) ==
    LET keys == {k \in DOMAIN row : notna(row[k])}
        n    == Cardinality(keys)
    IN  [k \in DOMAIN row |->
            IF isna(row[k]) THEN NaN
            ELSE Rat(Cardinality({i \in keys : RLt(row[i], row[k])}) + 1, n)]

\* row.rank(pct=True, na_option="keep"): the average rank among the non-NaN
\* scores divided by their number; NaN stays NaN.               (line 41)
rank_pct(row) ==
    LET keys == {k \in DOMAIN row : notna(row[k])}
        n    == Cardinality(keys)
    IN  [k \in DOMAIN row |->
            IF isna(row[k]) THEN NaN
            ELSE Rat(2 * Cardinality({i \in keys : RLt(row[i], row[k])})
                       + Cardinality({i \in keys : row[i] = row[k]}) + 1, 2 * n)]

compute_momentum_ranks(P, lookback, skip) ==
    LET mom == momentum(P, lookback, skip)
    IN  [t \in Index(P) |-> rank_pct(mom[t])]

\* Signals with strict comparisons.
build_signals_strict(rk, lq, sq) ==
    [longs  |-> [t \in Index(rk) |->
                    [k \in DOMAIN rk[t] |-> IF RGt(rk[t][k], lq) THEN 1 ELSE 0]],
     shorts |-> [t \in Index(rk) |->
                    [k \in DOMAIN rk[t] |-> IF RLt(rk[t][k], sq) THEN 1 ELSE 0]]]

\* Signals with the two thresholds exchanged.
build_signals_swapped(rk, lq, sq) ==
    [longs  |-> [t \in Index(rk) |->
                    [k \in DOMAIN rk[t] |-> IF RGe(rk[t][k], sq) THEN 1 ELSE 0]],
     shorts |-> [t \in Index(rk) |->
                    [k \in DOMAIN rk[t] |-> IF RLe(rk[t][k], lq) THEN 1 ELSE 0]]]

\* (ranks >= long_q).astype(int), (ranks <= short_q).astype(int)
\*                                                        (lines 46-47)
build_signals(rk, long_q, short_q) ==
    [longs  |-> [t \in Index(rk) |->
                    [k \in DOMAIN rk[t] |-> IF RGe(rk[t][k], long_q) THEN 1 ELSE 0]],
     shorts |-> [t \in Index(rk) |->
                    [k \in DOMAIN rk[t] |-> IF RLe(rk[t][k], short_q) THEN 1 ELSE 0]]]

\* The sum of a row of 0/1 indicators.
count(row) == Cardinality({k \in DOMAIN row : row[k] = 1})

\* A gate that asks only one side to have min_names names.
valid_rows_either(Lg, Sh, min_names) ==
    [t \in Index(Lg) |-> count(Lg[t]) >= min_names \/ count(Sh[t]) >= min_names]

\* valid = (longs.sum(axis=1) >= min_names) & (shorts.sum(axis=1) >= min_names)
\*                                                             (line 99)
valid_rows(Lg, Sh, min_names) ==
    [t \in Index(Lg) |-> count(Lg[t]) >= min_names /\ count(Sh[t]) >= min_names]

\* X.where(valid, 0)                                      (lines 100-101)
where_valid(X, v) ==
    [t \in Index(X) |-> [k \in DOMAIN X[t] |-> IF v[t] THEN X[t][k] ELSE 0]]

\* The arguments main() passes                         (lines 95, 96, 98)
lookback  == 12
skip      == 1
long_q    == <<9, 10>>
short_q   == <<1, 10>>
min_names == 20

(***************************************************************************)
(* data/turnover.py.                                                       *)
(***************************************************************************)
\* s.replace(0, np.nan)
replace0(x) == IF x = Zero THEN NaN ELSE x

\* Weights left as the sum of the two legs, without the final division.
normalize_row_skipped(w) == w

\* normalize_weights, one row                                 (lines 5-7)
normalize_row(w) ==
    LET row_sum == replace0(SumSkipNa([k \in DOMAIN w |-> RAbs(w[k])], DOMAIN w))
    IN  [k \in DOMAIN w |-> fillna(RDiv(w[k], row_sum), Zero)]

\* Weights that give every held name the same absolute weight, whichever
\* side it is on.
equal_weight_row_pooled(lrow, srow) ==
    LET nL == Cardinality({k \in DOMAIN lrow : lrow[k] > 0})
        nS == Cardinality({k \in DOMAIN srow : srow[k] > 0})
    IN  [k \in DOMAIN lrow \cup DOMAIN srow |->
            RAdd(IF lrow[k] > 0 THEN Rat(1, nL + nS) ELSE Zero,
                 IF srow[k] > 0 THEN Rat(-1, nL + nS) ELSE Zero)]

\* The sum of the two legs, each adding up to 1 in absolute value, without
\* the final normalisation.
equal_weight_row_unnormalized(lrow, srow) ==
    LET nL == Cardinality({k \in DOMAIN lrow : lrow[k] > 0})
        nS == Cardinality({k \in DOMAIN srow : srow[k] > 0})
    IN  [k \in DOMAIN lrow \cup DOMAIN srow |->
            RAdd(IF lrow[k] > 0 THEN Rat(1, nL) ELSE Zero,
                 IF srow[k] > 0 THEN Rat(-1, nS) ELSE Zero)]

\* equal_weight_long_short, one row                         (lines 10-16)
equal_weight_row(lrow, srow) ==
    LET L  == [k \in DOMAIN lrow |-> IF lrow[k] > 0 THEN One ELSE Zero]
        S  == [k \in DOMAIN srow |-> IF srow[k] > 0 THEN One ELSE Zero]
        nL == replace0(RInt(Cardinality({k \in DOMAIN L : L[k] = One})))
        nS == replace0(RInt(Cardinality({k \in DOMAIN S : S[k] = One})))
        lw == [k \in DOMAIN L |-> fillna(RDiv(L[k], nL), Zero)]
        sw == [k \in DOMAIN S |-> RNeg(fillna(RDiv(S[k], nS), Zero))]
        \* lw.add(sw, fill_value=0.0): a ticker of one panel only counts as 0
        \* in the other
        at(w, k) == IF k \in DOMAIN w THEN w[k] ELSE Zero
    IN  normalize_row([k \in DOMAIN lw \cup DOMAIN sw |-> RAdd(at(lw, k), at(sw, k))])

equal_weight_long_short(Lg, Sh) ==
    [t \in Index(Lg) |-> equal_weight_row(Lg[t], Sh[t])]

\* A drift that divides by the total absolute post-drift weight whatever it
\* is.
drift_weights_divided(W_prev, rets_prev) ==
    LET w_post == [k \in DOMAIN W_prev |->
                      RMul(fillna(W_prev[k], Zero),
                           RAdd(One, fillna(rets_prev[k], Zero)))]
        denom  == SumSkipNa([k \in DOMAIN W_prev |-> RAbs(w_post[k])], DOMAIN W_prev)
    IN  [k \in DOMAIN W_prev |-> RDiv(w_post[k], denom)]

\* Weights carried to the next date as they are, without the drift.
drift_weights_none(W_prev, rets_prev) == W_prev

\* drift_weights                                            (lines 19-31)
drift_weights(W_prev, rets_prev) ==
    IF DOMAIN W_prev = {} THEN W_prev
    ELSE
      LET at(x, k) == IF k \in DOMAIN x THEN x[k] ELSE NaN
          \* concat(...).dropna(how="all"): a ticker stays unless both its
          \* weight and its return are NaN
          idx == {k \in DOMAIN W_prev \cup DOMAIN rets_prev :
                     notna(at(W_prev, k)) \/ notna(at(rets_prev, k))}
          w      == [k \in idx |-> fillna(at(W_prev, k), Zero)]
          r      == [k \in idx |-> fillna(at(rets_prev, k), Zero)]
          w_post == [k \in idx |-> RMul(w[k], RAdd(One, r[k]))]
          denom  == SumSkipNa([k \in idx |-> RAbs(w_post[k])], idx)
      IN  IF idx = {} THEN W_prev
          ELSE IF denom = Zero THEN w_post
          ELSE [k \in idx |-> RDiv(w_post[k], denom)]

\* s.reindex(cols).fillna(0.0)
reindex0(x, cols) == [k \in cols |-> IF k \in DOMAIN x THEN fillna(x[k], Zero) ELSE Zero]

\* A turnover that counts the first date as a trade out of cash.
turnover_at_from_cash(Wp, R, i) ==
    LET cols  == Columns(Wp)
        w_pre == IF i = 1 THEN [k \in cols |-> Zero]
                 ELSE reindex0(drift_weights(Wp[i - 1], R[i - 1]), cols)
        w_t   == reindex0(Wp[i], cols)
    IN  RMul(<<1, 2>>,
             SumSkipNa([k \in cols |-> RAbs(RSub(w_t[k], w_pre[k]))], cols))

\* A turnover that drifts the previous row by the returns of the date itself.
turnover_at_same_date(Wp, R, i) ==
    IF i = 1 THEN Zero
    ELSE LET cols  == Columns(Wp)
             w_pre == reindex0(drift_weights(Wp[i - 1], R[i]), cols)
             w_t   == reindex0(Wp[i], cols)
         IN  RMul(<<1, 2>>,
                  SumSkipNa([k \in cols |-> RAbs(RSub(w_t[k], w_pre[k]))], cols))

\* A turnover that is the whole sum of the absolute changes, not half of it.
turnover_at_unhalved(Wp, R, i) ==
    IF i = 1 THEN Zero
    ELSE LET cols  == Columns(Wp)
             w_pre == reindex0(drift_weights(Wp[i - 1], R[i - 1]), cols)
             w_t   == reindex0(Wp[i], cols)
         IN  SumSkipNa([k \in cols |-> RAbs(RSub(w_t[k], w_pre[k]))], cols)

\* One pass of the loop of turnover_from_weights, for the date at position
\* i (1 is the first date)                                  (lines 37-46)
turnover_at(Wp, R, i) ==
    IF i = 1 THEN Zero
    ELSE LET cols  == Columns(Wp)
             w_pre == reindex0(drift_weights(Wp[i - 1], R[i - 1]), cols)
             w_t   == reindex0(Wp[i], cols)
         IN  RMul(<<1, 2>>,
                  SumSkipNa([k \in cols |-> RAbs(RSub(w_t[k], w_pre[k]))], cols))

\* A gross return that is missing as soon as one product is missing.
gross_of_strict(Wp, R) ==
    [t \in Index(Wp) |->
        IF \E k \in DOMAIN Wp[t] : isna(RMul(Wp[t][k], R[t][k])) THEN NaN
        ELSE SumSkipNa([k \in DOMAIN Wp[t] |-> RMul(Wp[t][k], R[t][k])], DOMAIN Wp[t])]

\* gross = (W * rets).sum(axis=1)                              (line 104)
gross_of(Wp, R) ==
    [t \in Index(Wp) |->
        SumSkipNa([k \in DOMAIN Wp[t] |-> RMul(Wp[t][k], R[t][k])], DOMAIN Wp[t])]

\* long_short_equal_weight of the other backtest variant
\* (analysis_surviorship_free.py, lines 46-56): each leg is divided by its
\* number of names, and the gross return is (W * rets).sum(axis=1).
long_short_equal_weight(Lg, Sh, R) ==
    [t \in Index(Lg) |->
        LET L  == [k \in DOMAIN Lg[t] |-> RInt(Lg[t][k])]
            S  == [k \in DOMAIN Sh[t] |-> RInt(Sh[t][k])]
            nL == replace0(SumSkipNa(L, DOMAIN L))
            nS == replace0(SumSkipNa(S, DOMAIN S))
            lw == [k \in DOMAIN L |-> fillna(RDiv(L[k], nL), Zero)]
            sw == [k \in DOMAIN S |-> RNeg(fillna(RDiv(S[k], nS), Zero))]
            at(w, k) == IF k \in DOMAIN w THEN w[k] ELSE Zero
            Wt == [k \in DOMAIN lw \cup DOMAIN sw |-> RAdd(at(lw, k), at(sw, k))]
        IN  SumSkipNa([k \in DOMAIN Wt |-> RMul(Wt[k], R[t][k])], DOMAIN Wt)]

COST_BPS == 10

\* Net returns that add the cost of trading instead of taking it off.
apply_turnover_costs_added(g, turnover, cost_bps) ==
    LET c == Rat(cost_bps, 10000)
    IN  [t \in DOMAIN g |-> RAdd(g[t], RMul(turnover[t], c))]

\* apply_turnover_costs                                     (lines 51-57)
apply_turnover_costs(g, turnover, cost_bps) ==
    LET c == Rat(cost_bps, 10000)
    IN  [t \in DOMAIN g |-> RSub(g[t], RMul(turnover[t], c))]

(***************************************************************************)
(* main() of analysis_survivorship_free.py, from the masked panel on       *)
(* (lines 93-109); Returns above is its first step.                        *)
(***************************************************************************)
\* ranks = compute_momentum_ranks(masked_prices, lookback=12, skip=1) (line 95)
Ranks ==
    /\ pc = "ranks"
    /\ ranks' = compute_momentum_ranks(masked_prices, lookback, skip)
    /\ pc' = "signals"
    /\ UNCHANGED <<tl_vars, mk_vars, mo_vars, dl_vars, masked_prices, rets, sig_longs, sig_shorts,
                   valid, longs, shorts, W, gross, to, net>>

\* longs, shorts = build_signals(ranks, long_q=0.9, short_q=0.1)  (line 96)
Signals ==
    /\ pc = "signals"
    /\ LET sig == build_signals(ranks, long_q, short_q)
       IN  sig_longs' = sig.longs /\ sig_shorts' = sig.shorts
    /\ pc' = "gate"
    /\ UNCHANGED <<tl_vars, mk_vars, mo_vars, dl_vars, masked_prices, rets, ranks,
                   valid, longs, shorts, W, gross, to, net>>

\* Lines 98-101.
Gate ==
    /\ pc = "gate"
    /\ LET v == valid_rows(sig_longs, sig_shorts, min_names)
       IN  /\ valid' = v
           /\ longs' = where_valid(sig_longs, v)
           /\ shorts' = where_valid(sig_shorts, v)
    /\ pc' = "weights"
    /\ UNCHANGED <<tl_vars, mk_vars, mo_vars, dl_vars, masked_prices, rets, ranks, sig_longs,
                   sig_shorts, W, gross, to, net>>

\* W = equal_weight_long_short(longs, shorts)                  (line 103)
Weights ==
    /\ pc = "weights"
    /\ W' = equal_weight_long_short(longs, shorts)
    /\ pc' = "gross"
    /\ UNCHANGED <<tl_vars, mk_vars, mo_vars, dl_vars, masked_prices, rets, ranks, sig_longs,
                   sig_shorts, valid, longs, shorts, gross, to, net>>

\* gross = (W * rets).sum(axis=1)                              (line 104)
Gross ==
    /\ pc = "gross"
    /\ gross' = gross_of(W, rets)
    /\ to' = <<>>
    /\ pc' = "turnover"
    /\ UNCHANGED <<tl_vars, mk_vars, mo_vars, dl_vars, masked_prices, rets, ranks, sig_longs,
                   sig_shorts, valid, longs, shorts, W, net>>

\* to = turnover_from_weights(W, rets), one date of its loop per step
\*                                     (line 107; turnover.py lines 37-46)
TurnoverStep ==
    /\ pc = "turnover"
    /\ Len(to) < Cardinality(Index(W))
    /\ to' = Append(to, turnover_at(W, rets, Len(to) + 1))
    /\ UNCHANGED <<pc, tl_vars, mk_vars, mo_vars, dl_vars, masked_prices, rets, ranks, sig_longs,
                   sig_shorts, valid, longs, shorts, W, gross, net>>

\* net = apply_turnover_costs(gross, to, COST_BPS)             (line 109)
Costs ==
    /\ pc = "turnover"
    /\ Len(to) = Cardinality(Index(W))
    /\ net' = apply_turnover_costs(gross, to, COST_BPS)
    /\ pc' = "done"
    /\ UNCHANGED <<tl_vars, mk_vars, mo_vars, dl_vars, masked_prices, rets, ranks, sig_longs,
                   sig_shorts, valid, longs, shorts, W, gross, to>>

(***************************************************************************)
(* The weight and turnover functions on every small pair of indicator      *)
(* panels and every small return panel.                                    *)
(***************************************************************************)
NWeightTickers == 2
WeightDates    == {1, 2}
\* Returns: missing, a total loss, flat, +50%.
ReturnCells    == {NaN, RInt(-1), Zero, <<1, 2>>}

WeightsInit ==
    /\ pc = "weights"
    /\ longs  \in [WeightDates -> [1..NWeightTickers -> {0, 1}]]
    /\ shorts \in [WeightDates -> [1..NWeightTickers -> {0, 1}]]
    /\ \E r \in [1..NWeightTickers -> ReturnCells] : rets = [t \in WeightDates |-> r]
    /\ NoTimeline
    /\ prices = Unset /\ membership = Unset /\ NoMonthly /\ NoDownload /\ masked_prices = Unset
    /\ ranks = Unset /\ sig_longs = Unset /\ sig_shorts = Unset /\ valid = Unset
    /\ W = Unset /\ gross = Unset /\ to = Unset /\ net = Unset

WeightsNext == Weights \/ Gross \/ TurnoverStep \/ Costs

SpecWeights == WeightsInit /\ [][WeightsNext]_vars

(***************************************************************************)
(* main() on index-sized masked panels.  min_names = 20 names a side at    *)
(* the 10% tails needs more than a hundred ranked tickers, so the panels   *)
(* are built from three groups of tickers that share a price path (losers, *)
(* a middle, winners) and two tickers whose membership changes.            *)
(***************************************************************************)
NMainTickers == 110
NMainDates   == 15

MainTickers == 1..NMainTickers
MainDates   == 1..NMainDates

\* Sizes of the loser group (tickers 1..nLow) and of the winner group (the
\* last nHigh tickers).
LowSizes  == {19, 20, 21}
HighSizes == {19, 20, 22}

\* The raw price of a ticker of each group: losers halve and winners double
\* after date 7, and winners gain another 50% at date 14.
GroupPrice(g, u) ==
    IF g = "low"  THEN (IF u <= 7 THEN RInt(2) ELSE RInt(1))
    ELSE IF g = "high" THEN (IF u <= 7 THEN RInt(2)
                             ELSE IF u <= 13 THEN RInt(4) ELSE RInt(6))
    ELSE RInt(2)

GroupOf(k, nLow, nHigh) ==
    IF k <= nLow THEN "low"
    ELSE IF k > NMainTickers - nHigh THEN "high" ELSE "mid"

\* The masked panel of a scenario: ticker `leaver` is out of the index from
\* date `leave` on, ticker 2 is not yet in the index before date `join`.
MainPanel(nLow, nHigh, leaver, leave, join) ==
    [u \in MainDates |->
        [k \in MainTickers |->
            IF (k = leaver /\ u >= leave) \/ (k = 2 /\ u < join) THEN NaN
            ELSE GroupPrice(GroupOf(k, nLow, nHigh), u)]]

MainInit ==
    /\ pc = "returns"
    /\ \E nLow \in LowSizes, nHigh \in HighSizes,
          leaver \in {1, 50, NMainTickers},
          leave \in {NMainDates - 1, NMainDates, NMainDates + 1},
          join \in {1, 3} :
            masked_prices = MainPanel(nLow, nHigh, leaver, leave, join)
    /\ NoTimeline
    /\ prices = Unset /\ membership = Unset /\ NoMonthly /\ NoDownload
    /\ rets = Unset /\ ranks = Unset
    /\ sig_longs = Unset /\ sig_shorts = Unset /\ valid = Unset
    /\ longs = Unset /\ shorts = Unset /\ W = Unset /\ gross = Unset
    /\ to = Unset /\ net = Unset

MainNext ==
    Returns \/ Ranks \/ Signals \/ Gate \/ Weights \/ Gross \/ TurnoverStep \/ Costs

SpecMain == MainInit /\ [][MainNext]_vars

(***************************************************************************)
(* C1 -- round trip of the replay.                                         *)
(***************************************************************************)
\* The indices of the events dated in [s, e] that name ticker k.
Mentions(evs, s, e, k) ==
    {i \in 1..Len(evs) :
        /\ s <= evs[i].date /\ evs[i].date <= e
        /\ k \in evs[i].added \cup evs[i].removed}

\* The history agrees with the current set: a ticker named by an event dated
\* in [s, e] is a current member exactly when the last such event adds it.
HistoryAgrees(evs, s, e, cur) ==
    \A k \in TimelineTickers :
        LET idx == Mentions(evs, s, e, k)
        IN  idx # {} =>
              LET l == CHOOSE i \in idx : \A j \in idx : j <= i
              IN  (k \in evs[l].added) <=> (k \in cur)

RoundTripCase == pc = "done" /\ end = today /\ start <= end

\* C1 as stated: for every current set and every date-sorted history, rolling
\* back to start and replaying forward to end = today gives, on the last day,
\* exactly the current set.
C1_RoundTripAnyHistory == RoundTripCase => current_members = current_set

\* C1 amended: the round trip returns the current set whenever the history
\* agrees with the current set (each ticker an event in [start, end] names is
\* a current member exactly when the last event naming it adds it).
C1_RoundTrip ==
    (RoundTripCase /\ HistoryAgrees(events, start, end, current_set))
        => current_members = current_set

\* A round trip that did roll back: the set as of start differs from the
\* current set, and the replay restored it.
C1_Witness ==
    /\ RoundTripCase
    /\ HistoryAgrees(events, start, end, current_set)
    /\ Len(events) = MaxEvents
    /\ memb # current_set
    /\ current_members = current_set
    /\ \E i \in 1..Len(events) : events[i].added \cap events[i].removed # {}

(***************************************************************************)
(* prices_masked_by_membership (panel_from_membership.py, lines 20-34).    *)
(* A panel is a function [date -> [ticker -> cell]]; the membership table  *)
(* is the set of its rows <<date, ticker, in_index>>.                      *)
(***************************************************************************)
\* membership.pivot_table(index="date", columns="ticker", values="in_index",
\*                        aggfunc="max")                      (lines 23-26)
\* A (date, ticker) pair without a row is NaN.
pivot_table(M) ==
    LET dates == {row[1] : row \in M}
        cols  == {row[2] : row \in M}
    IN  [dt \in dates |->
            [k \in cols |->
                LET vals == {row[3] : row \in {r \in M : r[1] = dt /\ r[2] = k}}
                IN  IF vals = {} THEN NaN
                    ELSE RInt(CHOOSE v \in vals : \A u \in vals : u <= v)]]

\* .reindex(prices.index).fillna(0.0)                          (lines 27-28)
reindex_fillna(mask, idx) ==
    LET cols == Columns(mask)
    IN  [dt \in idx |->
            [k \in cols |->
                IF dt \in DOMAIN mask THEN fillna(mask[dt][k], Zero) ELSE Zero]]

\* A call of a method of Python's built-in set on a and b: the attribute
\* lookup raises AttributeError for a name that set does not have.
set_method(name, a, b) ==
    IF name = "intersection" THEN [raised |-> "", value |-> a \cap b]
    ELSE IF name = "union" THEN [raised |-> "", value |-> a \cup b]
    ELSE IF name = "difference" THEN [raised |-> "", value |-> a \ b]
    ELSE [raised |-> "AttributeError", value |-> {}]

\* The result of a call: the exception raised ("" for none) and the panel
\* returned.
prices_masked_by_membership(P, M) ==
    LET mask   == reindex_fillna(pivot_table(M), Index(P))
        \* common = sorted(set(prices.columns).intersections(set(mask.columns)))
        \*                                                        (line 30)
        common == set_method("intersections", Columns(P), Columns(mask))
    IN  IF common.raised # "" THEN [raised |-> common.raised, panel |-> Unset]
        ELSE [raised |-> "",
              panel  |->
                 \* P = prices[common]; M = mask[common]; P.where(M > 0.5)
                 \*                                          (lines 31-34)
                 [dt \in Index(P) |->
                    [k \in common.value |->
                        IF RGt(mask[dt][k], <<1, 2>>) THEN P[dt][k] ELSE NaN]]]

MaskDates   == {1, 2}
PriceCols   == {1, 2}
MemberCols  == {2, 3}
\* Raw prices after prices.where(prices > 0): a positive price or NaN.
RawPrices   == {NaN, RInt(1), RInt(2)}

MaskInit ==
    /\ pc = "mask"
    /\ prices \in [MaskDates -> [PriceCols -> RawPrices]]
    /\ membership \in SUBSET (MaskDates \X MemberCols \X {0, 1})
    /\ NoMonthly /\ NoDownload
    /\ masked_prices = Unset
    /\ current_set = Unset /\ events = Unset /\ start = Unset /\ end = Unset
    /\ changes = Unset /\ row_i = Unset /\ parsed_events = Unset
    /\ today = Unset /\ backward = Unset /\ memb = Unset /\ cur_day = Unset
    /\ current_members = Unset /\ daily_rows = Unset
    /\ rets = Unset /\ ranks = Unset
    /\ sig_longs = Unset /\ sig_shorts = Unset /\ valid = Unset
    /\ longs = Unset /\ shorts = Unset /\ W = Unset /\ gross = Unset
    /\ to = Unset /\ net = Unset

\* masked_prices = prices_masked_by_membership(prices, membership)
\*                                   (analysis_survivorship_free.py, line 92)
MaskCall ==
    /\ pc = "mask"
    /\ LET res == prices_masked_by_membership(prices, membership)
       IN  IF res.raised = ""
           THEN masked_prices' = res.panel /\ pc' = "masked"
           ELSE masked_prices' = masked_prices /\ pc' = res.raised
    /\ UNCHANGED <<tl_vars, mk_vars, mo_vars, dl_vars, rets, ranks, sig_longs, sig_shorts, valid,
                   longs, shorts, W, gross, to, net>>

MaskNext == MaskCall

SpecMask == MaskInit /\ [][MaskNext]_vars

(***************************************************************************)
(* C3, C5 -- the masking contract.                                         *)
(***************************************************************************)
MaskReturned == pc \in {"masked", "AttributeError"}

\* The panel the contract describes: the price panel's dates, the tickers of
\* both inputs, the raw price where the table has in_index true for that
\* exact (date, ticker), missing elsewhere.
ContractMask(P, M) ==
    [dt \in Index(P) |->
        [k \in Columns(P) \cap {row[2] : row \in M} |->
            IF <<dt, k, 1>> \in M THEN P[dt][k] ELSE NaN]]

\* C3: once prices_masked_by_membership has been called, its output is the
\* panel of the contract.
C3_MaskContract ==
    MaskReturned =>
        /\ pc = "masked"
        /\ masked_prices = ContractMask(prices, membership)

\* C5: masking is idempotent: the call returns a panel, and masking that
\* panel by the same membership again returns the identical panel.
C5_MaskIdempotent ==
    MaskReturned =>
        /\ pc = "masked"
        /\ LET again == prices_masked_by_membership(masked_prices, membership)
           IN  again.raised = "" /\ again.panel = masked_prices

(***************************************************************************)
(* C4 -- returns never skip over a gap.                                    *)
(***************************************************************************)
\* C4: once the returns are computed, the return at (t, k) is missing whenever
\* the masked price at t or at the panel date just before t is missing (the
\* first date has no date before it), whatever earlier prices exist.
C4_NoSkipAhead ==
    pc = "ranks" =>
        \A t \in Index(masked_prices) : \A k \in DOMAIN masked_prices[t] :
            (\/ isna(masked_prices[t][k])
             \/ t - 1 \notin Index(masked_prices)
             \/ isna(masked_prices[t - 1][k]))
                => isna(rets[t][k])

\* A ticker priced on date 1, masked on date 2 and priced again on date 3 has
\* no return on date 3, while the other ticker has ordinary returns.
C4_Witness ==
    /\ pc = "ranks"
    /\ notna(masked_prices[1][1]) /\ isna(masked_prices[2][1])
    /\ notna(masked_prices[3][1]) /\ isna(rets[3][1])
    /\ notna(rets[2][2]) /\ notna(rets[3][2])

(***************************************************************************)
(* C6, C9, C10 -- weights and turnover.                                    *)
(***************************************************************************)
WeightsDone == pc \in {"gross", "turnover", "done"}

AbsSum(w) == SumSkipNa([k \in DOMAIN w |-> RAbs(w[k])], DOMAIN w)

LongSet(t)  == {k \in DOMAIN longs[t]  : longs[t][k]  > 0}
ShortSet(t) == {k \in DOMAIN shorts[t] : shorts[t][k] > 0}

\* C6: on every date the absolute weights of equal_weight_long_short sum to 1
\* when some name has a nonzero net weight (the long names and the short
\* names are not the same set) and to 0 otherwise.
C6_AbsWeightsSumToOneOrZero ==
    WeightsDone =>
        \A t \in Index(W) :
            AbsSum(W[t]) = IF LongSet(t) = ShortSet(t) THEN Zero ELSE One

\* One date trades with a name on both sides, another is flat because both
\* sides hold the same names.
C6_Witness ==
    /\ WeightsDone
    /\ LongSet(1) = {1, 2} /\ ShortSet(1) = {1} /\ AbsSum(W[1]) = One
    /\ LongSet(2) = {2} /\ ShortSet(2) = {2} /\ AbsSum(W[2]) = Zero

\* C9: the turnover of the first date is 0 and every later turnover lies in
\* [0, 2].
C9_TurnoverBounded ==
    pc \in {"turnover", "done"} =>
        \A i \in 1..Len(to) :
            /\ i = 1 => to[i] = Zero
            /\ RGe(to[i], Zero) /\ RLe(to[i], RInt(2))

\* Both sides are replaced from one date to the next after a drift, and the
\* turnover computed for the second date is the largest there is.
C9_Witness ==
    /\ pc = "done"
    /\ LongSet(1) = {1} /\ ShortSet(1) = {2}
    /\ LongSet(2) = {2} /\ ShortSet(2) = {1}
    /\ rets[1][1] = <<1, 2>>
    /\ to[1] = Zero /\ to[2] = One

\* The case of C10 at position i: the target rows at i-1 and i are identical
\* and non-zero, held name k returned +50% at i-1 and every other held name
\* returned 0.
DriftCase(i, k) ==
    /\ i - 1 \in Index(W) /\ i \in Index(W) /\ i <= Len(to)
    /\ W[i - 1] = W[i]
    /\ W[i][k] # Zero
    /\ rets[i - 1][k] = <<1, 2>>
    /\ \A j \in DOMAIN W[i] \ {k} : W[i][j] # Zero => rets[i - 1][j] = Zero

\* C10 as stated: in that case the turnover at i is strictly positive.
C10_DriftForcesTrading ==
    pc \in {"turnover", "done"} =>
        \A i \in Index(W) : \A k \in DOMAIN W[i] :
            DriftCase(i, k) => RGt(to[i], Zero)

\* C10 amended: in that case, when at least one other name is held, the
\* turnover at i is strictly positive.
C10_DriftForcesTradingAmongSeveral ==
    pc \in {"turnover", "done"} =>
        \A i \in Index(W) : \A k \in DOMAIN W[i] :
            (DriftCase(i, k) /\ \E j \in DOMAIN W[i] \ {k} : W[i][j] # Zero)
                => RGt(to[i], Zero)

\* Two names held long on both dates, the first returned +50%: the drifted
\* weights are 3/5 and 2/5 and a tenth of the portfolio is traded back.
C10_Witness ==
    /\ pc = "done"
    /\ DriftCase(2, 1)
    /\ W[2][1] = <<1, 2>> /\ W[2][2] = <<1, 2>>
    /\ to[2] = <<1, 10>>

(***************************************************************************)
(* C2, C7, C8 -- signals, gate and weights of main().                      *)
(***************************************************************************)
\* Ticker k has no masked price at date t (a date before the panel has none).
Masked(t, k) == t \notin Index(masked_prices) \/ isna(masked_prices[t][k])

Flat(t, k) == sig_longs[t][k] = 0 /\ sig_shorts[t][k] = 0 /\ W[t][k] = Zero

\* C2 as stated: a ticker that is not a member at t (its masked price at t
\* is missing) is in neither indicator set at t and has target weight 0 at t.
C2_NonMemberNeverHeld ==
    pc = "done" =>
        \A t \in Index(W) : \A k \in DOMAIN W[t] : Masked(t, k) => Flat(t, k)

\* C2 amended: a ticker whose masked price is missing at t - skip or at
\* t - skip - lookback, the two dates its momentum score at t is computed
\* from, is in neither indicator set at t and has target weight 0 at t.
C2_UnscoredNeverHeld ==
    WeightsDone =>
        \A t \in Index(W) : \A k \in DOMAIN W[t] :
            (Masked(t - skip, k) \/ Masked(t - skip - lookback, k)) => Flat(t, k)

\* A date on which the strategy trades while ticker 2, a member at t with a
\* loser's price path, is left out because it was not yet a member at
\* t - skip - lookback; loser 1 is short.
C2_Witness ==
    /\ pc = "done"
    /\ \E t \in Index(W) :
        /\ valid[t]
        /\ ~Masked(t, 2) /\ ~Masked(t - skip, 2) /\ t - skip - lookback \in Index(W)
        /\ Masked(t - skip - lookback, 2)
        /\ Flat(t, 2)
        /\ RLt(W[t][1], Zero)

\* C7: on a date where build_signals gives fewer than min_names long names or
\* fewer than min_names short names, both indicator rows are zeroed and every
\* target weight is 0.
C7_MinNamesGate ==
    WeightsDone =>
        \A t \in Index(W) :
            (count(sig_longs[t]) < min_names \/ count(sig_shorts[t]) < min_names)
                => \A k \in DOMAIN W[t] :
                      longs[t][k] = 0 /\ shorts[t][k] = 0 /\ W[t][k] = Zero

\* A date with enough long names and one short name too few is flat, and a
\* date with enough names on both sides trades.
C7_Witness ==
    /\ WeightsDone
    /\ \E t \in Index(W) :
        /\ count(sig_longs[t]) >= min_names
        /\ count(sig_shorts[t]) = min_names - 1
        /\ \A k \in DOMAIN W[t] : longs[t][k] = 0 /\ shorts[t][k] = 0 /\ W[t][k] = Zero

SumOver(w, S) == SumSkipNa([k \in S |-> w[k]], S)

\* C8: on every date with names on both sides each long name has the weight
\* +1/(2 N_long) and each short name the weight -1/(2 N_short); the long
\* weights sum to +1/2 and the short weights to -1/2.
C8_HalfLongHalfShort ==
    WeightsDone =>
        \A t \in Index(W) :
            (LongSet(t) # {} /\ ShortSet(t) # {}) =>
                /\ \A k \in LongSet(t)  : W[t][k] = Rat(1, 2 * Cardinality(LongSet(t)))
                /\ \A k \in ShortSet(t) : W[t][k] = Rat(-1, 2 * Cardinality(ShortSet(t)))
                /\ SumOver(W[t], LongSet(t))  = <<1, 2>>
                /\ SumOver(W[t], ShortSet(t)) = <<-1, 2>>

\* A trading date with 20 long names and 21 short names.
C8_Witness ==
    /\ WeightsDone
    /\ \E t \in Index(W) :
        /\ Cardinality(LongSet(t)) = 20 /\ Cardinality(ShortSet(t)) = 21
        /\ W[t][NMainTickers - 1] = <<1, 40>> /\ W[t][3] = <<-1, 42>>

(***************************************************************************)
(* C11 -- transaction costs.                                               *)
(***************************************************************************)
\* Costs in basis points the function is applied with: none, main()'s
\* COST_BPS, and a larger one.
CostBpsValues == {0, COST_BPS, 25}

\* C11: once main() has applied the costs, net is apply_turnover_costs(gross,
\* to, COST_BPS), and for every cost_bps >= 0 and date t the function gives
\* net_t = gross_t - turnover_t * cost_bps / 10000, so that net_t = gross_t on
\* the first date and when cost_bps = 0, and net_t <= gross_t.
C11_NetIsGrossLessCost ==
    pc = "done" =>
        /\ net = apply_turnover_costs(gross, to, COST_BPS)
        /\ \A cb \in CostBpsValues :
             LET n == apply_turnover_costs(gross, to, cb)
             IN  \A t \in DOMAIN gross :
                   /\ n[t] = RSub(gross[t], RDiv(RMul(to[t], RInt(cb)), RInt(10000)))
                   /\ t = 1 => n[t] = gross[t]
                   /\ cb = 0 => n[t] = gross[t]
                   /\ RLe(n[t], gross[t])

\* A run with a positive gross return on both dates and a trade on the second:
\* net equals gross on the first date and is lower by turnover * 10 / 10000 on
\* the second.
C11_Witness ==
    /\ pc = "done"
    /\ RGt(gross[1], Zero) /\ net[1] = gross[1]
    /\ to[2] = One
    /\ net[2] = RSub(gross[2], <<1, 1000>>)
    /\ RLt(net[2], gross[2])

(***************************************************************************)
(* The return computation on wide masked panels of two dates: winsorizing  *)
(* needs 50 returns in a row, so the cross-sections here have 48 to 100    *)
(* priced tickers.                                                         *)
(***************************************************************************)
NWinsorTickers == 100
WinsorTickers  == 1..NWinsorTickers
WinsorDates    == {1, 2}

\* Numbers of tickers priced on both dates.
PricedCounts ==
    {MinWinsorizeN - 2, MinWinsorizeN - 1, MinWinsorizeN, MinWinsorizeN + 1,
     2 * MinWinsorizeN}

\* The price on date 2 of the j-th of n priced tickers, the price on date 1
\* being 198.  "spaced": returns evenly spaced from -1/2 in steps of 1/99
\* (to +1/2 when n = 100); "flat": every return 0; "tails": spaced with a
\* lower first and higher last two returns.  With jump > 0 the last priced
\* ticker moves far: to 1000 or 888 (beyond the outlier threshold, 198 *
\* exp(1.5) = 887.4), to 887 (within it), to 44 (beyond the threshold on the
\* low side, 198 * exp(-1.5) = 44.2) or to 45 (within it).
JumpPrice(jump) ==
    IF jump = 1 THEN 1000 ELSE IF jump = 2 THEN 888 ELSE IF jump = 3 THEN 887
    ELSE IF jump = 4 THEN 44 ELSE 45

WinsorPrice(pattern, jump, n, j) ==
    IF jump > 0 /\ j = n THEN RInt(JumpPrice(jump))
    ELSE IF pattern = "flat" THEN RInt(198)
    ELSE IF pattern = "tails" /\ j = 1 THEN RInt(60)
    ELSE IF pattern = "tails" /\ j = n - 1 THEN RInt(400)
    ELSE IF pattern = "tails" /\ j = n THEN RInt(500)
    ELSE RInt(97 + 2 * j)

\* The masked panel of a scenario: n tickers are priced on both dates, the
\* first ones (gap = "tail") or the last ones (gap = "head"); the others are
\* out of the index on date 2.
WinsorPanel(pattern, jump, n, gap) ==
    LET off == IF gap = "head" THEN NWinsorTickers - n ELSE 0
    IN  [u \in WinsorDates |->
            [k \in WinsorTickers |->
                IF u = 1 THEN RInt(198)
                ELSE IF k - off \in 1..n THEN WinsorPrice(pattern, jump, n, k - off)
                ELSE NaN]]

WinsorInit ==
    /\ pc = "returns"
    /\ \E pattern \in {"spaced", "flat", "tails"}, jump \in 0..5,
          n \in PricedCounts, gap \in {"head", "tail"} :
            masked_prices = WinsorPanel(pattern, jump, n, gap)
    /\ NoTimeline
    /\ prices = Unset /\ membership = Unset /\ NoMonthly /\ NoDownload
    /\ rets = Unset /\ ranks = Unset
    /\ sig_longs = Unset /\ sig_shorts = Unset /\ valid = Unset
    /\ longs = Unset /\ shorts = Unset /\ W = Unset /\ gross = Unset
    /\ to = Unset /\ net = Unset

WinsorNext == Returns

SpecWinsor == WinsorInit /\ [][WinsorNext]_vars

(***************************************************************************)
(* C12, C13 -- winsorization.                                              *)
(***************************************************************************)
\* The returns before winsorization: p[t] / p[t-1] - 1 over consecutive panel
\* dates, missing when a price is missing or the return is an outlier.
RawReturn(t, k) ==
    IF t - 1 \notin Index(masked_prices) THEN NaN
    ELSE LET r == RSub(RDiv(masked_prices[t][k], masked_prices[t - 1][k]), One)
         IN  IF log_bad(r) THEN NaN ELSE r

RawRow(t) == [k \in DOMAIN masked_prices[t] |-> RawReturn(t, k)]

NonMissing(row) == Cardinality({k \in DOMAIN row : notna(row[k])})

\* C12: on every date whose row has fewer than 50 non-missing returns after
\* outlier nulling, the returned row is that row, value for value.
C12_ThinRowsUnchanged ==
    pc = "ranks" =>
        \A t \in Index(rets) :
            NonMissing(RawRow(t)) < 50 => rets[t] = RawRow(t)

\* 50 tickers are priced and one of them is nulled as an outlier, which
\* leaves 49 returns with a low and two high values among them: the row is
\* returned as it was.
C12_Witness ==
    /\ pc = "ranks"
    /\ NonMissing(masked_prices[2]) = 50
    /\ NonMissing(RawRow(2)) = 49
    /\ \E k \in WinsorTickers : RawReturn(2, k) = <<101, 99>>
    /\ \E k \in WinsorTickers : RawReturn(2, k) = <<-23, 33>>
    /\ rets[2] = RawRow(2)

\* The 1% and 99% quantiles of a row by their definition: the value at the
\* fractional position q * (n - 1) of the sorted non-missing values, taken
\* on the line between the two neighbouring values.
SortedValue(row, j) ==
    LET keys == {k \in DOMAIN row : notna(row[k])}
    IN  row[CHOOSE k \in keys :
              /\ Cardinality({i \in keys : RLt(row[i], row[k])}) < j
              /\ j <= Cardinality({i \in keys : RLe(row[i], row[k])})]

RowQuantile(row, qn) ==
    LET n    == NonMissing(row)
        base == (qn * (n - 1)) \div 100
        rest == qn * (n - 1) - 100 * base
        x    == SortedValue(row, base + 1)
    IN  IF rest = 0 THEN x
        ELSE RAdd(RMul(Rat(100 - rest, 100), x),
                  RMul(Rat(rest, 100), SortedValue(row, base + 2)))

\* The 100 values evenly spaced from -1/2 to 1/2.
Linspace100 == {Rat(2 * j - 101, 198) : j \in 1..100}

IsLinspace100(row) ==
    /\ NonMissing(row) = 100
    /\ {row[k] : k \in {i \in DOMAIN row : notna(row[i])}} = Linspace100

\* C13: on every date whose row has at least 50 non-missing returns, a value
\* below the row's 1% quantile becomes that quantile, a value above the 99%
\* quantile becomes that quantile, a value between them is unchanged and a
\* missing value stays missing; of 100 values evenly spaced from -1/2 to 1/2
\* exactly the lowest and the highest change and the other 98 do not.
C13_WinsorizeClips ==
    pc = "ranks" =>
        \A t \in Index(rets) :
            NonMissing(RawRow(t)) >= 50 =>
                LET raw == RawRow(t)
                    lo  == RowQuantile(raw, 1)
                    hi  == RowQuantile(raw, 99)
                IN  /\ \A k \in DOMAIN raw :
                          /\ isna(raw[k]) => isna(rets[t][k])
                          /\ RLt(raw[k], lo) => rets[t][k] = lo
                          /\ RGt(raw[k], hi) => rets[t][k] = hi
                          /\ (RLe(lo, raw[k]) /\ RLe(raw[k], hi)) => rets[t][k] = raw[k]
                    /\ IsLinspace100(raw) =>
                          /\ {raw[k] : k \in {i \in DOMAIN raw : rets[t][i] # raw[i]}}
                                = {<<-1, 2>>, <<1, 2>>}
                          /\ Cardinality({k \in DOMAIN raw : rets[t][k] # raw[k]}) = 2
                          /\ Cardinality({k \in DOMAIN raw :
                                            notna(raw[k]) /\ rets[t][k] = raw[k]}) = 98

\* The 100 evenly spaced returns: the lowest, -1/2, is raised to the 1%
\* quantile -49/100 and the highest is lowered to 49/100.
C13_Witness ==
    /\ pc = "ranks"
    /\ IsLinspace100(RawRow(2))
    /\ \E k \in WinsorTickers :
          RawReturn(2, k) = <<-1, 2>> /\ rets[2][k] = <<-49, 100>>
    /\ \E k \in WinsorTickers :
          RawReturn(2, k) = <<1, 2>> /\ rets[2][k] = <<49, 100>>
    /\ \E k \in WinsorTickers :
          RawReturn(2, k) = <<-97, 198>> /\ rets[2][k] = <<-97, 198>>

(***************************************************************************)
(* build_membership_timeline from the change table on: _parse_added_removed *)
(* (build_sp500_history.py, lines 184-213), the event loop, filter and sort *)
(* (lines 228-238), then the replay above.                                  *)
(* A cell of the change table is missing (NaCell) or a text, held as the    *)
(* sequence of the parts re.split(r"[,/]| and ", s) cuts it into.  Tickers  *)
(* are numbered: 1 is AAA, 2 is BBB.  Day 0 is a date before 1990-01-01.    *)
(***************************************************************************)
NaT      == -1
Date1990 == 1

\* A missing cell of the change table, and pd.notna on a cell.
NaCell == <<"<NA>">>
cell_notna(c) == c # NaCell

\* p.strip()
strip(p) == IF p = " " THEN "" ELSE p

\* re.search(r"\(([A-Za-z0-9\.\-]+)\)", p): the group matched, "" for no match
paren_search(p) == IF p = "Acme (BBB)" THEN "BBB" ELSE ""

\* normalize_ticker (lines 35-43): strip, upper-case, drop blanks; the result
\* is given as the ticker's number.
normalize_ticker(t) ==
    IF t \in {"AAA", "aaa"} THEN 1 ELSE 2

\* The bucket filled from one cell                          (lines 186-199)
RECURSIVE bucket_of(_)
bucket_of(parts) ==
    IF parts = <<>> THEN <<>>
    ELSE LET p == strip(Head(parts))
             m == paren_search(p)
         IN  (IF p = "" THEN <<>>
              ELSE IF m # "" THEN <<normalize_ticker(m)>>
              ELSE <<normalize_ticker(p)>>) \o bucket_of(Tail(parts))

\* A Reason cell is missing, or a text: <<x, y>> stands for "x replaces y"
\* and <<"other">> for a text the pattern of lines 202-204 does not match.
parse_added_removed(row) ==
    LET added0   == IF cell_notna(row.Added) THEN bucket_of(row.Added) ELSE <<>>
        removed0 == IF cell_notna(row.Removed) THEN bucket_of(row.Removed) ELSE <<>>
        fallback == added0 = <<>> /\ removed0 = <<>> /\ cell_notna(row.Reason)
                    /\ Len(row.Reason) = 2
    IN  [date    |-> row.Date,
         added   |-> IF fallback THEN <<normalize_ticker(row.Reason[1])>> ELSE added0,
         removed |-> IF fallback THEN <<normalize_ticker(row.Reason[2])>> ELSE removed0]

\* events.sort(key=lambda e: e.date): a stable sort            (line 238)
RECURSIVE InsertByDate(_, _)
InsertByDate(e, s) ==
    IF s = <<>> THEN <<e>>
    ELSE IF s[Len(s)].date <= e.date THEN Append(s, e)
    ELSE Append(InsertByDate(e, SubSeq(s, 1, Len(s) - 1)), s[Len(s)])

RECURSIVE SortByDate(_)
SortByDate(s) ==
    IF s = <<>> THEN <<>>
    ELSE InsertByDate(s[Len(s)], SortByDate(SubSeq(s, 1, Len(s) - 1)))

\* A filter that keeps the events of every date.
kept_events_all(evs) == SortByDate(evs)

\* events = [e for e in events if e.date >= pd.Timestamp("1990-01-01")];
\* events.sort(key=lambda e: e.date)                       (lines 237-238)
kept_events(evs) ==
    LET since1990(e) == e.date >= Date1990
    IN  SortByDate(SelectSeq(evs, since1990))

\* The tickers of a list.
Range(l) == {l[i] : i \in 1..Len(l)}

\* The event as the replay reads it: its loops test, add and remove the
\* tickers of each list.
AsSets(ev) == [date |-> ev.date, added |-> Range(ev.added), removed |-> Range(ev.removed)]

NChangeRows == 2

AddedCells   == {NaCell, <<" ">>, <<"AAA">>, <<"AAA", "aaa">>, <<"Acme (BBB)">>}
RemovedCells == {NaCell, <<"AAA">>, <<"BBB">>}

\* Rows of the change table: a date that parsed (rows without one are dropped
\* at line 170), and the cells; a Reason is given on rows that name no ticker.
ChangeRows ==
    {r \in [Date : {0, MaxDay - 1}, Added : AddedCells, Removed : RemovedCells,
            Reason : {NaCell, <<"other">>, <<"BBB", "AAA">>}] :
        r.Reason # NaCell => (r.Added \in {NaCell, <<" ">>} /\ r.Removed = NaCell)}

\* The table _extract_changes_table returns: at least one row (it raises
\* when no table has a dated row, lines 175-176), sorted by date (line 179).
ChangeTables ==
    {c \in UNION {[1..n -> ChangeRows] : n \in 1..NChangeRows} :
        \A i \in 1..Len(c), j \in 1..Len(c) : i < j => c[i].Date <= c[j].Date}

ParseInit ==
    /\ pc = "parse"
    /\ current_set \in {{1}, {1, 2}}
    /\ changes \in ChangeTables
    /\ row_i = 0
    /\ parsed_events = <<>>
    /\ events = <<>>
    /\ start \in {Date1990 - 1, Date1990}
    /\ end = MaxDay
    /\ today = MaxDay
    /\ backward = <<>>
    /\ memb = {}
    /\ cur_day = start
    /\ current_members = {}
    /\ daily_rows = <<>>
    /\ prices = Unset /\ membership = Unset /\ NoMonthly /\ NoDownload
    /\ masked_prices = Unset /\ rets = Unset /\ ranks = Unset
    /\ sig_longs = Unset /\ sig_shorts = Unset /\ valid = Unset
    /\ longs = Unset /\ shorts = Unset /\ W = Unset /\ gross = Unset
    /\ to = Unset /\ net = Unset

\* One pass of the loop of lines 229-235.
ParseRow ==
    /\ pc = "parse"
    /\ row_i < Len(changes)
    /\ LET ev == parse_added_removed(changes[row_i + 1])
       IN  parsed_events' =
             IF ev.date = NaT THEN parsed_events
             ELSE IF ev.added = <<>> /\ ev.removed = <<>> THEN parsed_events
             ELSE Append(parsed_events, ev)
    /\ row_i' = row_i + 1
    /\ UNCHANGED <<pc, current_set, changes, events, start, end, today, backward,
                   memb, cur_day, current_members, daily_rows, mk_vars, mo_vars, dl_vars, bt_vars>>

\* Lines 237-243: the filter, the sort, and the start of the rollback.
FilterSort ==
    /\ pc = "parse"
    /\ row_i = Len(changes)
    /\ LET kept == kept_events(parsed_events)
           evs  == [i \in 1..Len(kept) |-> AsSets(kept[i])]
       IN  /\ parsed_events' = kept
           /\ events' = evs
           /\ backward' = BackwardOf(evs, start)
    /\ memb' = current_set
    /\ pc' = "rollback"
    /\ UNCHANGED <<current_set, changes, row_i, start, end, today, cur_day,
                   current_members, daily_rows, mk_vars, mo_vars, dl_vars, bt_vars>>

ParseNext == ParseRow \/ FilterSort \/ RollBack \/ StartForward \/ ForwardDay

SpecParse == ParseInit /\ [][ParseNext]_vars

(***************************************************************************)
(* C14, C15 -- the events kept from the change table.                      *)
(***************************************************************************)
NoRepeat(l) == \A i \in 1..Len(l), j \in 1..Len(l) : l[i] = l[j] => i = j

EventsKept == pc \in {"rollback", "forward", "done"}

\* C14: every event kept by build_membership_timeline has disjoint added and
\* removed tickers, and no ticker twice in its added list or in its removed
\* list.
C14_EventBucketsNormalized ==
    EventsKept =>
        \A i \in 1..Len(parsed_events) :
            /\ Range(parsed_events[i].added) \cap Range(parsed_events[i].removed) = {}
            /\ NoRepeat(parsed_events[i].added)
            /\ NoRepeat(parsed_events[i].removed)

\* C15: build_membership_timeline returns a membership panel only when the
\* change table gave at least one usable event; with none it stops with a
\* fatal error.
C15_ZeroEventsFatal ==
    pc = "done" => parsed_events # <<>>

(***************************************************************************)
(* C16 -- zero denominators in the weights.                                *)
(***************************************************************************)
\* The weights of row t after the returns of t, before renormalising.
PostDrift(t) ==
    [k \in DOMAIN W[t] |-> RMul(W[t][k], RAdd(One, fillna(rets[t][k], Zero)))]

\* C16: in the weights of equal_weight_long_short no weight is missing, a
\* date with no long names has no positive weight, a date with no short names
\* has no negative weight and a date with neither has an all-zero row; and
\* drift_weights, applied to a row whose post-drift weights are all 0, returns
\* the all-zero vector, and never a missing weight.
C16_ZeroDenominators ==
    WeightsDone =>
        \A t \in Index(W) :
            /\ \A k \in DOMAIN W[t] : notna(W[t][k])
            /\ LongSet(t) = {} => \A k \in DOMAIN W[t] : RLe(W[t][k], Zero)
            /\ ShortSet(t) = {} => \A k \in DOMAIN W[t] : RGe(W[t][k], Zero)
            /\ (LongSet(t) = {} /\ ShortSet(t) = {})
                  => \A k \in DOMAIN W[t] : W[t][k] = Zero
            /\ LET dw == drift_weights(W[t], rets[t])
               IN  /\ \A k \in DOMAIN dw : notna(dw[k])
                   /\ AbsSum(PostDrift(t)) = Zero
                         => dw = [k \in DOMAIN W[t] |-> Zero]

\* Date 1 is long only, and its one name loses everything, so the post-drift
\* weights sum to 0; date 2 has names on neither side; date 2's turnover is 0.
C16_Witness ==
    /\ pc = "done"
    /\ LongSet(1) = {1} /\ ShortSet(1) = {}
    /\ W[1][1] = One /\ W[1][2] = Zero
    /\ rets[1][1] = RInt(-1)
    /\ drift_weights(W[1], rets[1]) = [k \in DOMAIN W[1] |-> Zero]
    /\ LongSet(2) = {} /\ ShortSet(2) = {}
    /\ \A k \in DOMAIN W[2] : W[2][k] = Zero
    /\ to[2] = Zero

(***************************************************************************)
(* The weight and turnover functions with returns that differ from date to *)
(* date.                                                                   *)
(***************************************************************************)
TurnoverTickers == {1, 2}

TurnoverInit ==
    /\ pc = "weights"
    /\ longs  \in [WeightDates -> [TurnoverTickers -> {0, 1}]]
    /\ shorts \in [WeightDates -> [TurnoverTickers -> {0, 1}]]
    /\ rets   \in [WeightDates -> [TurnoverTickers -> ReturnCells]]
    /\ NoTimeline
    /\ prices = Unset /\ membership = Unset /\ NoMonthly /\ NoDownload /\ masked_prices = Unset
    /\ ranks = Unset /\ sig_longs = Unset /\ sig_shorts = Unset /\ valid = Unset
    /\ W = Unset /\ gross = Unset /\ to = Unset /\ net = Unset

TurnoverNext == Weights \/ Gross \/ TurnoverStep \/ Costs

SpecTurnover == TurnoverInit /\ [][TurnoverNext]_vars

(***************************************************************************)
(* C17 -- the turnover formula.                                            *)
(***************************************************************************)
\* A sum in which a missing term makes the sum missing.
RECURSIVE SumStrict(_, _)
SumStrict(s, S) ==
    IF S = {} THEN Zero
    ELSE LET k == CHOOSE x \in S : TRUE
         IN  RAdd(s[k], SumStrict(s, S \ {k}))

\* W[i-1][k] * (1 + r[i-1][k]), a missing return counting as 0.
Compounded(i, k) == RMul(W[i - 1][k], RAdd(One, fillna(rets[i - 1][k], Zero)))

CompoundedAbsSum(i) ==
    SumStrict([k \in DOMAIN W[i - 1] |-> RAbs(Compounded(i, k))], DOMAIN W[i - 1])

\* The drifted vector of C17 as stated: the quotient, whatever the divisor.
DriftedQuotient(i) ==
    [k \in DOMAIN W[i - 1] |-> RDiv(Compounded(i, k), CompoundedAbsSum(i))]

\* The drifted vector with the zero sum set apart.
DriftedOrZero(i) ==
    IF CompoundedAbsSum(i) = Zero THEN [k \in DOMAIN W[i - 1] |-> Zero]
    ELSE DriftedQuotient(i)

HalfAbsDiff(w, dv) ==
    RMul(<<1, 2>>, SumStrict([k \in DOMAIN w |-> RAbs(RSub(w[k], dv[k]))], DOMAIN w))

\* C17 as stated: for every date after the first the turnover is
\* 0.5 * sum |W[i] - d| with d[k] = W[i-1][k] * (1 + r[i-1][k]) divided by
\* the sum of |W[i-1][j] * (1 + r[i-1][j])|.
C17_TurnoverFormula ==
    pc = "done" =>
        \A i \in 2..Len(to) : to[i] = HalfAbsDiff(W[i], DriftedQuotient(i))

\* C17 amended: the same, where that sum is not 0; where it is 0 (row i-1 is
\* flat, or everything held lost 100%) d is the all-zero vector.
C17_TurnoverFormulaOrFlat ==
    pc = "done" =>
        \A i \in 2..Len(to) : to[i] = HalfAbsDiff(W[i], DriftedOrZero(i))

\* Two names held long on both dates; the first returned +50% on date 1 and
\* -100% on date 2: the turnover of date 2 is the tenth that the returns of
\* date 1 give.
C17_Witness ==
    /\ pc = "done"
    /\ W[1][1] = <<1, 2>> /\ W[1][2] = <<1, 2>> /\ W[2] = W[1]
    /\ rets[1][1] = <<1, 2>> /\ rets[1][2] = Zero
    /\ rets[2][1] = RInt(-1) /\ isna(rets[2][2])
    /\ to[2] = <<1, 10>>

(***************************************************************************)
(* C18 -- the gross return.                                                *)
(***************************************************************************)
\* C18: the gross return of every date t is the sum over tickers of
\* W[t][k] * rets[t][k] with a missing return counted as 0, and it is 0 on a
\* date where every weight is 0.
C18_GrossIsWeightedSum ==
    pc \in {"turnover", "done"} =>
        \A t \in Index(W) :
            /\ gross[t] = SumStrict([k \in DOMAIN W[t] |->
                                        RMul(W[t][k], fillna(rets[t][k], Zero))],
                                    DOMAIN W[t])
            /\ (\A k \in DOMAIN W[t] : W[t][k] = Zero) => gross[t] = Zero

\* Date 1 holds two names long, one with a missing return and one that
\* returned +50%: gross is 1/2 * 1/2.  Date 2 is flat although both names
\* have returns, and its gross return is 0.
C18_Witness ==
    /\ pc = "done"
    /\ W[1][1] = <<1, 2>> /\ W[1][2] = <<1, 2>>
    /\ isna(rets[1][1]) /\ rets[1][2] = <<1, 2>>
    /\ gross[1] = <<1, 4>>
    /\ \A k \in DOMAIN W[2] : W[2][k] = Zero
    /\ rets[2][1] = <<1, 2>> /\ rets[2][2] = RInt(-1)
    /\ gross[2] = Zero

(***************************************************************************)
(* C19, C20 -- the forward replay.                                         *)
(***************************************************************************)
\* The days whose rows the forward loop has emitted.
DaysReplayed ==
    IF pc = "done" THEN start..end
    ELSE IF pc = "forward" THEN start..(cur_day - 1)
    ELSE {}

\* The members the emitted rows give for day d.
MembersOn(day) == {row[2] : row \in {x \in Range(daily_rows) : x[1] = day}}

\* C19: on every replayed day d a ticker is a member exactly when the last
\* event naming it among the events dated from start to d, taken in
\* ascending date order and, on one date, in list order, lists it as added
\* (also when that event lists it as removed too); a ticker no such event
\* names is a member exactly when it was one at start.
C19_RemovalsThenAdditionsInOrder ==
    \A day \in DaysReplayed : \A k \in TimelineTickers :
        LET idx == Mentions(events, start, day, k)
        IN  k \in MembersOn(day) <=>
              IF idx = {} THEN k \in memb
              ELSE k \in events[CHOOSE i \in idx : \A j \in idx : j <= i].added

\* Two events on the first day: the first removes ticker 1, the second lists
\* it as added and as removed; ticker 1, not a member before, is one that day.
C19_Witness ==
    /\ pc = "done"
    /\ Len(events) = 2
    /\ events[1] = [date |-> start, added |-> {}, removed |-> {1}]
    /\ events[2] = [date |-> start, added |-> {1}, removed |-> {1}]
    /\ 1 \notin memb
    /\ 1 \in MembersOn(start)

\* The members before the events of day d are applied.
MembersBefore(day) == IF day = start THEN memb ELSE MembersOn(day - 1)

\* C20: the replay never stops with an error, and on a replayed day with one
\* event, an event whose removed tickers are not members only adds its added
\* tickers, and an event whose added tickers are members already only removes
\* its removed tickers (those it also lists as added stay).
C20_NoOpSides ==
    /\ pc \in {"rollback", "forward", "done"}
    /\ \A day \in DaysReplayed :
         LET evs == ByDate(events, start, end, day)
             old == MembersBefore(day)
         IN  Len(evs) = 1 =>
               /\ evs[1].removed \cap old = {}
                     => MembersOn(day) = old \cup evs[1].added
               /\ evs[1].added \subseteq old
                     => MembersOn(day) = old \ (evs[1].removed \ evs[1].added)

\* The event of day 1 removes ticker 1, which is not a member, and adds
\* ticker 2; the event of day 2 adds ticker 2 again.
C20_Witness ==
    /\ pc = "done"
    /\ start = 1
    /\ events = <<[date |-> 1, added |-> {2}, removed |-> {1}],
                  [date |-> 2, added |-> {2}, removed |-> {}]>>
    /\ memb = {}
    /\ MembersOn(1) = {2}
    /\ MembersOn(2) = {2}

(***************************************************************************)
(* C21 -- discarded events.                                                *)
(***************************************************************************)
\* The events the loop of lines 229-235 appends for a change table.
RECURSIVE ParsedOf(_)
ParsedOf(tbl) ==
    IF tbl = <<>> THEN <<>>
    ELSE LET ev == parse_added_removed(Head(tbl))
         IN  (IF ev.date = NaT \/ (ev.added = <<>> /\ ev.removed = <<>>)
              THEN <<>> ELSE <<ev>>) \o ParsedOf(Tail(tbl))

RECURSIVE UndoAll(_, _)
UndoAll(m, evs) ==
    IF evs = <<>> THEN m ELSE UndoAll(UndoEvent(m, Head(evs)), Tail(evs))

RECURSIVE ReplayRows(_, _, _, _, _)
ReplayRows(m, evs, s, e, day) ==
    IF day > e THEN <<>>
    ELSE LET m2 == ApplyEvents(m, ByDate(evs, s, e, day))
         IN  RowsOf(day, m2) \o ReplayRows(m2, evs, s, e, day + 1)

\* The panel build_membership_timeline returns for a current set, a change
\* table and a window.
PanelOf(cur, tbl, s, e) ==
    LET kept == kept_events(ParsedOf(tbl))
        evs  == [i \in 1..Len(kept) |-> AsSets(kept[i])]
    IN  ReplayRows(UndoAll(cur, BackwardOf(evs, s)), evs, s, e, s)

\* A row whose event is not discarded: it names a ticker and is dated on or
\* after 1990-01-01.
Usable(row) ==
    LET ev == parse_added_removed(row)
    IN  (ev.added # <<>> \/ ev.removed # <<>>) /\ ev.date >= Date1990

\* C21: no kept event has both lists empty or a date before 1990-01-01, and
\* the panel returned is the panel of the same input without the rows whose
\* events are discarded.
C21_DiscardedEventsAbsent ==
    /\ EventsKept =>
          \A i \in 1..Len(parsed_events) :
              /\ parsed_events[i].added # <<>> \/ parsed_events[i].removed # <<>>
              /\ parsed_events[i].date >= Date1990
    /\ pc = "done" =>
          daily_rows = PanelOf(current_set, SelectSeq(changes, Usable), start, end)

\* The window starts before 1990.  The first row, dated before 1990, adds BBB
\* and the second names no ticker: both are discarded, and BBB, not a
\* current member, is in no row of the panel.
C21_Witness ==
    /\ pc = "done"
    /\ start < Date1990
    /\ current_set = {1}
    /\ Len(changes) >= 2
    /\ changes[1].Date < Date1990 /\ changes[1].Added = <<"Acme (BBB)">>
    /\ changes[1].Removed = NaCell
    /\ changes[2].Added = <<" ">> /\ changes[2].Removed = NaCell
    /\ changes[2].Reason = NaCell
    /\ parsed_events = <<>>
    /\ \A i \in 1..Len(daily_rows) : daily_rows[i][2] = 1
    /\ Len(daily_rows) = end - start + 1

(***************************************************************************)
(* compute_momentum_ranks and build_signals on small masked panels: the    *)
(* panel has lookback + skip + 1 dates, and the prices at the two dates the *)
(* score of the last date reads take every value.                          *)
(***************************************************************************)
NRankTickers == 3
RankTickers  == 1..NRankTickers
RankDates    == 1..(lookback + skip + 1)
RankPrices   == {NaN, RInt(1), RInt(2), RInt(4)}

RankPanel(first, last) ==
    [u \in RankDates |->
        [k \in RankTickers |->
            IF u = 1 THEN first[k]
            ELSE IF u = lookback + 1 THEN last[k]
            ELSE RInt(1)]]

RanksInit ==
    /\ pc = "ranks"
    /\ \E first \in [RankTickers -> RankPrices], last \in [RankTickers -> RankPrices] :
          masked_prices = RankPanel(first, last)
    /\ NoTimeline
    /\ prices = Unset /\ membership = Unset /\ NoMonthly /\ NoDownload
    /\ rets = Unset /\ ranks = Unset
    /\ sig_longs = Unset /\ sig_shorts = Unset /\ valid = Unset
    /\ longs = Unset /\ shorts = Unset /\ W = Unset /\ gross = Unset
    /\ to = Unset /\ net = Unset

RanksNext == Ranks \/ Signals

SpecRanks == RanksInit /\ [][RanksNext]_vars

(***************************************************************************)
(* C22 -- momentum ranks.                                                  *)
(***************************************************************************)
Ranked == pc \in {"signals", "gate"}

\* The momentum score of ticker k at date t as a price ratio: the masked
\* price at t - skip over the masked price at t - skip - lookback.
Score(t, k) ==
    IF Masked(t - skip, k) \/ Masked(t - skip - lookback, k) THEN NaN
    ELSE RDiv(masked_prices[t - skip][k], masked_prices[t - skip - lookback][k])

ScoredOn(t) == {k \in DOMAIN masked_prices[t] : notna(Score(t, k))}

\* C22: a ticker whose score is missing has a missing rank; the ranks of the
\* scored tickers lie in [0, 1], grow with the score, are equal for equal
\* scores, and are average ranks over the scored tickers only: they add up to
\* (n + 1) / 2 for n scored tickers.
C22_RanksOverNonMissing ==
    Ranked =>
        \A t \in Index(ranks) :
            /\ \A k \in DOMAIN ranks[t] :
                  /\ isna(Score(t, k)) <=> isna(ranks[t][k])
                  /\ notna(ranks[t][k]) =>
                        RGe(ranks[t][k], Zero) /\ RLe(ranks[t][k], One)
            /\ \A i \in ScoredOn(t), j \in ScoredOn(t) :
                  /\ RLt(Score(t, i), Score(t, j)) => RLt(ranks[t][i], ranks[t][j])
                  /\ Score(t, i) = Score(t, j) => ranks[t][i] = ranks[t][j]
            /\ ScoredOn(t) # {} =>
                  SumStrict(ranks[t], ScoredOn(t)) = Rat(Cardinality(ScoredOn(t)) + 1, 2)

\* On the last date ticker 1 has no score, and tickers 2 and 3 are tied:
\* each has the rank 3/4, the average of 1/2 and 1.
C22_Witness ==
    /\ Ranked
    /\ LET t == lookback + skip + 1
       IN  /\ isna(Score(t, 1)) /\ isna(ranks[t][1])
           /\ Score(t, 2) = RInt(2) /\ Score(t, 3) = RInt(2)
           /\ ranks[t][2] = <<3, 4>> /\ ranks[t][3] = <<3, 4>>

(***************************************************************************)
(* C23, C25 -- build_signals.                                              *)
(***************************************************************************)
Signalled == pc \in {"gate", "weights", "gross", "turnover", "done"}

\* C23: the two panels of build_signals have the rank panel's dates and
\* tickers; long is 1 exactly when the rank is present and >= long_q, short
\* is 1 exactly when the rank is present and <= short_q, both are 0 or 1, and
\* a ticker with a missing rank is in neither set.
C23_SignalsAreThresholds ==
    Signalled =>
        /\ Index(sig_longs) = Index(ranks) /\ Index(sig_shorts) = Index(ranks)
        /\ \A t \in Index(ranks) :
              /\ DOMAIN sig_longs[t] = DOMAIN ranks[t]
              /\ DOMAIN sig_shorts[t] = DOMAIN ranks[t]
              /\ \A k \in DOMAIN ranks[t] :
                    /\ sig_longs[t][k] \in {0, 1} /\ sig_shorts[t][k] \in {0, 1}
                    /\ sig_longs[t][k] = 1 <=>
                          (notna(ranks[t][k])
                             /\ ranks[t][k][1] * long_q[2] >= long_q[1] * ranks[t][k][2])
                    /\ sig_shorts[t][k] = 1 <=>
                          (notna(ranks[t][k])
                             /\ ranks[t][k][1] * short_q[2] <= short_q[1] * ranks[t][k][2])
                    /\ isna(ranks[t][k]) =>
                          sig_longs[t][k] = 0 /\ sig_shorts[t][k] = 0

\* A date with a ticker ranked exactly short_q, which is short, a ticker
\* ranked above long_q, which is long, and a ticker between them, which is
\* in neither set; and a date with long names and a ticker without a rank,
\* which is in neither set.
C23_Witness ==
    /\ Signalled
    /\ \E t \in Index(ranks) :
          /\ \E k \in DOMAIN ranks[t] : ranks[t][k] = short_q /\ sig_shorts[t][k] = 1
          /\ \E k \in DOMAIN ranks[t] :
                RGt(ranks[t][k], long_q) /\ sig_longs[t][k] = 1 /\ sig_shorts[t][k] = 0
          /\ \E k \in DOMAIN ranks[t] :
                /\ RGt(ranks[t][k], short_q) /\ RLt(ranks[t][k], long_q)
                /\ sig_longs[t][k] = 0 /\ sig_shorts[t][k] = 0
    /\ \E t \in Index(ranks) :
          /\ \E k \in DOMAIN ranks[t] :
                isna(ranks[t][k]) /\ sig_longs[t][k] = 0 /\ sig_shorts[t][k] = 0
          /\ \E k \in DOMAIN ranks[t] : sig_longs[t][k] = 1

\* Thresholds build_signals is called with, short_q < long_q.
ThresholdValues == {<<1, 10>>, <<1, 3>>, <<1, 2>>, <<3, 4>>, <<9, 10>>, One}
ThresholdPairs ==
    {q \in ThresholdValues \X ThresholdValues : RLt(q[2], q[1])}

\* C25: whatever the thresholds short_q < long_q, no ticker is long and
\* short on one date in the output of build_signals on the ranks computed,
\* and none is in the signals main() builds.
C25_LongShortDisjoint ==
    /\ Ranked =>
          \A q \in ThresholdPairs :
              LET sig == build_signals(ranks, q[1], q[2])
              IN  \A t \in Index(ranks) : \A k \in DOMAIN ranks[t] :
                      ~(sig.longs[t][k] = 1 /\ sig.shorts[t][k] = 1)
    /\ pc = "gate" =>
          \A t \in Index(ranks) : \A k \in DOMAIN ranks[t] :
              ~(sig_longs[t][k] = 1 /\ sig_shorts[t][k] = 1)

\* Three tickers ranked 1/3, 2/3 and 1: with thresholds 3/4 and 1/3 the
\* first is short only and the third long only, and with main()'s thresholds
\* the third is long.
C25_Witness ==
    /\ pc = "gate"
    /\ LET t   == lookback + skip + 1
           sig == build_signals(ranks, <<3, 4>>, <<1, 3>>)
       IN  /\ ranks[t][1] = <<1, 3>> /\ ranks[t][2] = <<2, 3>> /\ ranks[t][3] = One
           /\ sig.shorts[t][1] = 1 /\ sig.longs[t][1] = 0
           /\ sig.longs[t][3] = 1 /\ sig.shorts[t][3] = 0
           /\ sig.longs[t][2] = 0 /\ sig.shorts[t][2] = 0
           /\ sig_longs[t][3] = 1

(***************************************************************************)
(* C24 -- outlier nulling.                                                 *)
(***************************************************************************)
\* p[t] / p[t-1] - 1 over consecutive panel dates.
PlainReturn(t, k) ==
    IF t - 1 \notin Index(masked_prices) THEN NaN
    ELSE RSub(RDiv(masked_prices[t][k], masked_prices[t - 1][k]), One)

\* |ln(1 + r)| > 1.5, told from the square of x = 1 + r: x = 0, x^2 > e^3
\* when x >= 1 and 1 / x^2 > e^3 when x < 1, with e^3 = 20.0855... taken as
\* 20.086.
IsOutlier(r) ==
    LET x  == RAdd(r, One)
        x2 == RMul(x, x)
    IN  /\ notna(r)
        /\ \/ x = Zero
           \/ RGe(x, One) /\ RGt(x2, <<20086, 1000>>)
           \/ RGt(x, Zero) /\ RLt(x, One) /\ RGt(<<x2[2], x2[1]>>, <<20086, 1000>>)

\* The row of date t with its outliers nulled.
KeptRow(t) ==
    [k \in DOMAIN masked_prices[t] |->
        IF IsOutlier(PlainReturn(t, k)) THEN NaN ELSE PlainReturn(t, k)]

\* C24: a return with |ln(1 + r)| > 1.5 is missing in the output and every
\* other return is kept; the row is winsorized as the row without its
\* outliers: left as it is when fewer than 50 returns remain, and clipped to
\* the 1% and 99% quantiles of the remaining returns otherwise.
C24_OutliersNulledFirst ==
    pc = "ranks" =>
        \A t \in Index(rets) :
            /\ \A k \in DOMAIN rets[t] :
                  notna(PlainReturn(t, k)) =>
                      (IsOutlier(PlainReturn(t, k)) <=> isna(rets[t][k]))
            /\ NonMissing(KeptRow(t)) < 50 => rets[t] = KeptRow(t)
            /\ NonMissing(KeptRow(t)) >= 50 =>
                  LET lo == RowQuantile(KeptRow(t), 1)
                      hi == RowQuantile(KeptRow(t), 99)
                  IN  \A k \in DOMAIN rets[t] :
                          rets[t][k] = clip(KeptRow(t)[k], lo, hi)

\* 50 tickers are priced, with a low and two high returns among them, and
\* the last goes from 198 to 888, just beyond the threshold: it is nulled and
\* the 49 others are left as they were.
C24_Witness ==
    /\ pc = "ranks"
    /\ NonMissing(masked_prices[2]) = 50
    /\ \E k \in WinsorTickers :
          /\ masked_prices[2][k] = RInt(888)
          /\ IsOutlier(PlainReturn(2, k)) /\ isna(rets[2][k])
    /\ \E k \in WinsorTickers : PlainReturn(2, k) = <<-23, 33>>
    /\ NonMissing(rets[2]) = 49
    /\ rets[2] = KeptRow(2)

(***************************************************************************)
(* C26 -- the two backtest variants.                                       *)
(***************************************************************************)
\* C26: on the gated panels of main(), the gross return of every date is half
\* the return long_short_equal_weight gives for the same panels and returns,
\* and both are 0 on a date the gate leaves flat.
C26_GrossIsHalfOfLegSum ==
    pc = "done" =>
        LET strat == long_short_equal_weight(longs, shorts, rets)
        IN  \A t \in Index(W) :
              /\ gross[t] = RMul(<<1, 2>>, strat[t])
              /\ ~valid[t] => gross[t] = Zero /\ strat[t] = Zero

\* A trading date with 20 long names that returned +50%: 1/4 with the
\* normalized weights, 1/2 with the other variant; and a date the gate
\* leaves flat although build_signals gave it long names.
C26_Witness ==
    /\ pc = "done"
    /\ \E t \in Index(W) :
          /\ valid[t] /\ Cardinality(LongSet(t)) = 20
          /\ gross[t] = <<1, 4>>
          /\ long_short_equal_weight(longs, shorts, rets)[t] = <<1, 2>>
    /\ \E t \in Index(W) :
          /\ ~valid[t] /\ count(sig_longs[t]) > 0
          /\ gross[t] = Zero
          /\ long_short_equal_weight(longs, shorts, rets)[t] = Zero

\* ---------------------------------------------------------------------------
\* data/download_prices_by_union.py: batch and robust_download
\* ---------------------------------------------------------------------------
NDownloadTickers == 51
BatchSize == 25     \* batch(all_tickers, n=25)                      (line 64)
MaxTries  == 3      \* while tries < 3                               (line 67)
None      == "None"

Min2(a, b) == IF a <= b THEN a ELSE b

\* range(0, l, n): the start offsets 0, n, 2n, ... below l         (line 23)
NBatches(l, n) == (l + n - 1) \div n

\* batch(iterable, n): the slices iterable[i : i + n]         (lines 21-24)
batch(iterable, n) ==
    [k \in 1..NBatches(Len(iterable), n) |->
        SubSeq(iterable, (k - 1) * n + 1, Min2(k * n, Len(iterable)))]

\* What download_batch does on one call: it raises, or it returns a frame
\* that is empty or not.
Outcomes == {"raise", "empty", "frame"}

\* A variant of the loop body that leaves the loop only on a non-empty frame.
attempt_retry_empty(outcome, grp, tr, err, fr) ==
    IF outcome = "frame"
    THEN [tries |-> tr, last_err |-> err, frames |-> Append(fr, grp),
          broke |-> TRUE]
    ELSE [tries |-> tr + 1, last_err |-> IF outcome = "raise" THEN "error" ELSE err,
          frames |-> fr, broke |-> FALSE]

\* One pass through the body of the while loop              (lines 68-76):
\* try: part = download_batch(...); if not part.empty: frames.append(part);
\* break / except: last_err = e; tries += 1; time.sleep(1 * tries)
attempt(outcome, grp, tr, err, fr) ==
    IF outcome = "raise"
    THEN [tries |-> tr + 1, last_err |-> "error", frames |-> fr, broke |-> FALSE]
    ELSE [tries |-> tr, last_err |-> err,
          frames |-> IF outcome = "frame" THEN Append(fr, grp) ELSE fr,
          broke |-> TRUE]

Batches == batch(all_tickers, BatchSize)

DownloadInit ==
    /\ pc = "download"
    /\ \E n \in 0..NDownloadTickers : all_tickers = [k \in 1..n |-> k]
    /\ frames = <<>>                                            \* line 63
    /\ grp_i = 1 /\ tries = 0 /\ last_err = None                \* lines 64-66
    /\ calls = <<>> /\ warned = <<>>
    /\ NoTimeline /\ NoMonthly
    /\ prices = Unset /\ membership = Unset /\ masked_prices = Unset
    /\ rets = Unset /\ ranks = Unset /\ sig_longs = Unset /\ sig_shorts = Unset
    /\ valid = Unset /\ longs = Unset /\ shorts = Unset /\ W = Unset
    /\ gross = Unset /\ to = Unset /\ net = Unset

\* The for loop moves to the next batch: tries = 0, last_err = None.
NextBatch ==
    /\ grp_i' = grp_i + 1
    /\ tries' = 0
    /\ last_err' = None

\* One iteration of the while loop for the batch at hand    (lines 67-76).
Attempt ==
    /\ pc = "download"
    /\ grp_i <= Len(Batches)
    /\ tries < MaxTries
    /\ \E outcome \in Outcomes :
        LET r == attempt(outcome, grp_i, tries, last_err, frames) IN
        /\ calls' = Append(calls, [grp |-> grp_i, outcome |-> outcome])
        /\ frames' = r.frames
        /\ IF r.broke
           THEN NextBatch
           ELSE /\ tries' = r.tries
                /\ last_err' = r.last_err
                /\ grp_i' = grp_i
    /\ UNCHANGED <<pc, all_tickers, warned, tl_vars, mk_vars, mo_vars, bt_vars>>

\* The while loop ran out of tries: the warning, then the next batch
\* (lines 77-78).
GiveUp ==
    /\ pc = "download"
    /\ grp_i <= Len(Batches)
    /\ tries >= MaxTries
    /\ warned' = IF tries = 3 /\ last_err # None
                 THEN Append(warned, grp_i) ELSE warned
    /\ NextBatch
    /\ UNCHANGED <<pc, all_tickers, frames, calls, tl_vars, mk_vars, mo_vars,
                   bt_vars>>

\* The for loop is exhausted: the frames are merged and returned
\* (lines 79-85).
ReturnFrames ==
    /\ pc = "download"
    /\ grp_i > Len(Batches)
    /\ pc' = "downloaded"
    /\ UNCHANGED <<dl_vars, tl_vars, mk_vars, mo_vars, bt_vars>>

DownloadNext == Attempt \/ GiveUp \/ ReturnFrames

SpecDownload == DownloadInit /\ [][DownloadNext]_vars

\* robust_download is one sequential call: a step that is enabled is taken.
SpecDownloadLive == SpecDownload /\ WF_vars(DownloadNext)

CallsOf(g) == SelectSeq(calls, LAMBDA c : c.grp = g)

Flatten(seqs) ==
    LET RECURSIVE Go(_)
        Go(k) == IF k = 0 THEN <<>> ELSE Go(k - 1) \o seqs[k]
    IN Go(Len(seqs))

DownloadSafe ==
    /\ Flatten(Batches) = all_tickers
    /\ \A g \in 1..Len(Batches) :
        /\ Len(Batches[g]) \in 1..25
        /\ Len(CallsOf(g)) <= 3
        /\ \A k \in 1..Len(CallsOf(g)) :
              CallsOf(g)[k].outcome # "raise" => k = Len(CallsOf(g))
        /\ g < grp_i => Len(CallsOf(g)) >= 1
        /\ (g < grp_i /\ CallsOf(g)[Len(CallsOf(g))].outcome = "raise")
              => Len(CallsOf(g)) = 3
    /\ \A k \in 1..Len(calls) : calls[k].grp \in 1..Len(Batches)
    /\ \A j, k \in 1..Len(calls) : j <= k => calls[j].grp <= calls[k].grp
    /\ pc = "downloaded" => grp_i = Len(Batches) + 1

\* C27: robust_download tries each batch of at most 25 tickers at most 3
\* times, makes no further attempt at a batch after the first attempt that
\* does not raise (an empty frame included), goes on to the remaining batches
\* after a batch failed 3 times, and the loop terminates.
C27_BoundedRetries == []DownloadSafe /\ <>(pc = "downloaded")

\* Three batches; the first failed three times, the second stopped at an
\* empty frame on its first attempt, the third succeeded on a retry.
C27_Witness ==
    /\ pc = "downloaded"
    /\ Len(Batches) = 3
    /\ Len(CallsOf(1)) = 3 /\ warned = <<1>>
    /\ CallsOf(2) = <<[grp |-> 2, outcome |-> "empty"]>>
    /\ Len(CallsOf(3)) = 2
    /\ frames = <<3>>

\* ---------------------------------------------------------------------------
\* build_sp500_history.py: monthly_panel_from_daily (lines 275-283)
\* ---------------------------------------------------------------------------
\* Dates are the day numbers of a common year: 1 is Jan 1, 31 is Jan 31,
\* 32 is Feb 1, 59 is Feb 28, 365 is Dec 31.
MonthLengths == <<31, 28, 31, 30, 31, 30, 31, 31, 30, 31, 30, 31>>

RECURSIVE EndOfMonth(_)
EndOfMonth(m) == IF m = 0 THEN 0 ELSE EndOfMonth(m - 1) + MonthLengths[m]

MonthEndDays == {EndOfMonth(m) : m \in 1..12}

\* date + pd.offsets.MonthEnd(0): a month end stays, any other day rolls
\* forward to the end of its month                               (line 277).
MonthEnd0(d) == CHOOSE e \in MonthEndDays :
                    e >= d /\ \A f \in MonthEndDays : f >= d => e <= f

\* A variant that keeps only the rows dated at a month end: membership as of
\* the last day of the month.
monthly_panel_at_month_end(frame) ==
    LET rows   == {r \in Range(frame) : r[1] \in MonthEndDays}
        months == SortedSeq({r[1] : r \in rows})
        OfMonth(mo) ==
            LET ts == SortedSeq({r[2] : r \in {x \in rows : x[1] = mo}})
            IN  [j \in 1..Len(ts) |-> <<mo, ts[j], 1>>]
        RECURSIVE Go(_)
        Go(k) == IF k = 0 THEN <<>> ELSE Go(k - 1) \o OfMonth(months[k])
    IN  Go(Len(months))

\* daily.groupby(["month", "ticker"])["in_index"].max().reset_index()
\* .rename(columns={"month": "date"}): one row per (month, ticker) key that
\* occurs, keys in sorted order, the value the largest in_index of the group
\* (lines 278-282).
monthly_panel_from_daily(frame) ==
    LET rows   == Range(frame)
        months == SortedSeq({MonthEnd0(r[1]) : r \in rows})
        Group(mo, t) == {r \in rows : MonthEnd0(r[1]) = mo /\ r[2] = t}
        MaxIn(mo, t) == CHOOSE v \in {r[3] : r \in Group(mo, t)} :
                            \A r \in Group(mo, t) : r[3] <= v
        OfMonth(mo) ==
            LET ts == SortedSeq({r[2] : r \in {x \in rows : MonthEnd0(x[1]) = mo}})
            IN  [j \in 1..Len(ts) |-> <<mo, ts[j], MaxIn(mo, ts[j])>>]
        RECURSIVE Go(_)
        Go(k) == IF k = 0 THEN <<>> ELSE Go(k - 1) \o OfMonth(months[k])
    IN  Go(Len(months))

NMonthlyDays   == 3
MonthlyTickers == {1, 2, 3}
\* Jan 30, Jan 31, Feb 1, ...
MonthlyDays    == 30..(29 + NMonthlyDays)

\* The frame build_membership_timeline returns: for every day of the range,
\* in order, one row (day, ticker, 1) per member, in ticker order.
DailyFrame(members) ==
    LET days == SortedSeq(DOMAIN members)
        RECURSIVE Go(_)
        Go(k) == IF k = 0 THEN <<>>
                 ELSE Go(k - 1) \o RowsOf(days[k], members[days[k]])
    IN  Go(Len(days))

MonthlyInit ==
    /\ pc = "monthly"
    /\ \E members \in [MonthlyDays -> SUBSET MonthlyTickers] :
          daily = DailyFrame(members)
    /\ monthly = Unset
    /\ NoTimeline /\ NoDownload
    /\ prices = Unset /\ membership = Unset /\ masked_prices = Unset
    /\ rets = Unset /\ ranks = Unset /\ sig_longs = Unset /\ sig_shorts = Unset
    /\ valid = Unset /\ longs = Unset /\ shorts = Unset /\ W = Unset
    /\ gross = Unset /\ to = Unset /\ net = Unset

MonthlyPanel ==
    /\ pc = "monthly"
    /\ monthly' = monthly_panel_from_daily(daily)
    /\ pc' = "returned"
    /\ UNCHANGED <<daily, tl_vars, mk_vars, dl_vars, bt_vars>>

MonthlyNext == MonthlyPanel

SpecMonthly == MonthlyInit /\ [][MonthlyNext]_vars

\* The days of calendar month m.
DaysOfMonth(m) == (EndOfMonth(m - 1) + 1)..EndOfMonth(m)

MemberOnDay(d, t) == \E k \in 1..Len(daily) : daily[k] = <<d, t, 1>>

MemberOfMonth(m, t) ==
    \E k \in 1..Len(monthly) : monthly[k] = <<EndOfMonth(m), t, 1>>

\* C28: in the monthly panel a ticker is a member at the month-end date of a
\* calendar month exactly when the daily frame has it as a member on at
\* least one day of that month (so both sides of a swap are members in the
\* month of the swap); every row is dated at a month end, and no
\* (month, ticker) pair occurs twice.
C28_MemberOfMonthIffAnyDay ==
    pc = "returned" =>
        /\ \A m \in 1..12 : \A t \in MonthlyTickers :
              MemberOfMonth(m, t) <=> \E d \in DaysOfMonth(m) : MemberOnDay(d, t)
        /\ \A k \in 1..Len(monthly) :
              /\ monthly[k][1] \in MonthEndDays
              /\ monthly[k][3] = 1
        /\ \A j, k \in 1..Len(monthly) :
              (monthly[j][1] = monthly[k][1] /\ monthly[j][2] = monthly[k][2])
                  => j = k

\* Ticker 1 is swapped for ticker 2 on Jan 31: both are members of January,
\* only ticker 2 is a member of February.
C28_Witness ==
    /\ pc = "returned"
    /\ MemberOnDay(30, 1) /\ ~MemberOnDay(30, 2)
    /\ ~MemberOnDay(31, 1) /\ MemberOnDay(31, 2)
    /\ ~MemberOnDay(32, 1) /\ MemberOnDay(32, 2)
    /\ MemberOfMonth(1, 1) /\ MemberOfMonth(1, 2)
    /\ ~MemberOfMonth(2, 1) /\ MemberOfMonth(2, 2)

(***************************************************************************)
(* C29 -- the size of the turnover between flat and trading dates.         *)
(***************************************************************************)
IsFlat(t)    == \A k \in DOMAIN W[t] : W[t][k] = Zero
IsTrading(t) == ~IsFlat(t)

\* No name has a weight of the same sign at dates t - 1 and t: every long
\* name and every short name of t - 1 was replaced.
BothSidesReplaced(t) ==
    /\ IsTrading(t - 1) /\ IsTrading(t)
    /\ \A k \in DOMAIN W[t] :
          /\ ~(RGt(W[t - 1][k], Zero) /\ RGt(W[t][k], Zero))
          /\ ~(RLt(W[t - 1][k], Zero) /\ RLt(W[t][k], Zero))

\* Every name held at t lost its whole value over t: the post-drift weights
\* sum to 0 and drift_weights returns them as they are.
DriftedToNothing(t) == AbsSum(PostDrift(t)) = Zero

LaterDates == {i \in Index(W) : i - 1 \in Index(W) /\ i <= Len(to)}

EventsDated(lo, hi) ==
    LET within(ev) == lo <= ev.date /\ ev.date <= hi
    IN  SelectSeq(events, within)

IsPrefix(s, t) == Len(s) <= Len(t) /\ SubSeq(t, 1, Len(s)) = s

ReplaySnapshots ==
    /\ \A day \in DaysReplayed :
          /\ EventsDated(day, day) = <<>> => MembersOn(day) = MembersBefore(day)
          /\ MembersOn(day) = ApplyEvents(memb, EventsDated(start, day))
    /\ \A j, k \in 1..Len(daily_rows) :
          (daily_rows[j][1] = daily_rows[k][1] /\ daily_rows[j][2] = daily_rows[k][2])
              => j = k

\* A step only appends rows, and the rows it appends are dated later than
\* every row emitted before.
RowsKept ==
    /\ IsPrefix(daily_rows, daily_rows')
    /\ \A j \in 1..Len(daily_rows) : \A k \in (Len(daily_rows) + 1)..Len(daily_rows') :
          daily_rows[j][1] < daily_rows'[k][1]

\* C30: in the forward replay the snapshot of a day without an event equals
\* the snapshot of the day before (the rolled-back start set on the first
\* day), the snapshot of day d is the rolled-back start set with the events
\* dated from start to d applied in order, no (day, ticker) pair is emitted
\* twice, and a step never changes the rows emitted for earlier days.
C30_ReplayFrame == []ReplaySnapshots /\ [][RowsKept]_vars

\* Three days replayed with one event, on day 2: day 1 repeats the start
\* set, day 2 differs from day 1, day 3 repeats day 2.
C30_Witness ==
    /\ pc = "done"
    /\ start = 1 /\ end = 3
    /\ Len(events) = 1 /\ events[1].date = 2
    /\ MembersOn(1) = memb
    /\ MembersOn(2) # MembersOn(1)
    /\ MembersOn(3) = MembersOn(2)
    /\ Len(daily_rows) > 0

====
